---------------------------- MODULE Spec2Model ----------------------------
(***************************************************************************)
(* MudaeTracker: a Discord bot that keeps a ledger of kakera debts.        *)
(*                                                                         *)
(* The repository holds four builds of the bot:                            *)
(*   "index"      src/index.js            one pendingActions map keyed by  *)
(*                                        message id, reaction-confirmed   *)
(*   "part_000"   src/unnamed/part_000    pendingLoans (message id) and    *)
(*                                        pendingRepayments (channel id),  *)
(*                                        strict regex on Mudae's message  *)
(*   "part_001a"  src/unnamed/part_001    lines 1-346: as part_000 with    *)
(*                                        loose parsing of Mudae's message *)
(*   "part_001b"  src/unnamed/part_001    lines 347-615: no pending table, *)
(*                                        the trigger writes the ledger    *)
(* The variable `variant` says which build is running; it never changes.   *)
(*                                                                         *)
(* Text is a sequence of one-character strings, so that the regular        *)
(* expressions, String.includes, parseInt and Number.toString of the code  *)
(* are computed character by character.  Time is in milliseconds since an  *)
(* arbitrary origin, as Date.now() is; the database keeps TIMESTAMPs in    *)
(* UTC and the process runs in UTC, so Date.setDate(getDate() + 7 w) adds  *)
(* exactly w weeks of milliseconds.                                        *)
(***************************************************************************)
EXTENDS Integers, Sequences, FiniteSets, Bags

VARIABLES
    variant,            \* which build of the bot is running
    isTrackingEnabled,  \* let isTrackingEnabled = true
    pendingActions,     \* index.js: Map message id -> action
    pendingLoans,       \* part_000 / part_001a: Map message id -> loan
    pendingRepayments,  \* part_000 / part_001a: Map channel id -> repayment
    debts,              \* rows of table debts
    nextId,             \* the SERIAL sequence behind debts.id
    now,                \* the wall clock, Date.now()
    nextMsgId,          \* message ids are unique: the next one Discord gives
    tasks,              \* the async handlers suspended at an await
    applied,            \* history: ledger actions run per pending entry
    uncaught,           \* history: an error left a handler or a timer callback
    rejected,           \* history: the gate of the slash commands refused a user
    cutShort,           \* history: an accrual pass ended at a failed UPDATE
    timers              \* the ready handler has reached its setInterval calls

vars == <<variant, isTrackingEnabled, pendingActions, pendingLoans,
          pendingRepayments, debts, nextId, now, nextMsgId, tasks, applied,
          uncaught, rejected, cutShort, timers>>

-----------------------------------------------------------------------------
(* Bounds of the model *)

\* handlers that may be suspended at an await at the same time
MaxTasks == 2
\* rows the debts table may ever receive (ids 1..MaxDebts)
MaxDebts == 2
\* trigger messages that register a pending entry (or, in part_001b, write)
MaxMsgs == 2
\* the clock advances StepMs at a time, MaxTicks times
MaxTicks == 3
StepMs == 150000
\* the days the clock runs over in the specifications of the ledger
MaxDays == 14

-----------------------------------------------------------------------------
(* Program constants *)

\* the retention window of the cleanup sweep: now - data.timestamp > 300000
RetentionMs == 300000
\* 1000 * 60 * 60 * 24
DayMs == 86400000
\* Math.floor(diffDays / 7), weeksPassed * 7
DaysPerWeek == 7

MUDAE_ID == "432610292342587392"
\* the emoji U+2705
CHECKMARK == "U+2705"
\* process.env.ADMIN_IDS, split on commas
ADMIN_IDS == {"admin"}

-----------------------------------------------------------------------------
(* Text *)

Digit == {"0", "1", "2", "3", "4", "5", "6", "7", "8", "9"}
\* \s of a JavaScript regular expression: WhiteSpace and LineTerminator of
\* ECMAScript.  A character that TLA+ cannot write is named by its code point.
Space == {" ", "\t", "\n", "\r", "\f", "U+000B", "U+00A0", "U+1680",
          "U+2000", "U+2001", "U+2002", "U+2003", "U+2004", "U+2005", "U+2006",
          "U+2007", "U+2008", "U+2009", "U+200A", "U+2028", "U+2029", "U+202F",
          "U+205F", "U+3000", "U+FEFF"}
\* the characters that "." of a regular expression without the s flag does
\* not match
LineTerminator == {"\n", "\r", "U+2028", "U+2029"}

UpperCase == <<"A", "B", "C", "D", "E", "F", "G", "H", "I", "J", "K", "L", "M",
               "N", "O", "P", "Q", "R", "S", "T", "U", "V", "W", "X", "Y", "Z">>
LowerCase == <<"a", "b", "c", "d", "e", "f", "g", "h", "i", "j", "k", "l", "m",
               "n", "o", "p", "q", "r", "s", "t", "u", "v", "w", "x", "y", "z">>

\* whether the character c of a text and the character p of a pattern are the
\* same to a regular expression with flag i and without flag u, p being a
\* character of ASCII: Canonicalize(c) = Canonicalize(p).  Canonicalize takes
\* a letter of ASCII to its capital and takes no character beyond ASCII to a
\* character of ASCII (ch >= 128 and cu < 128 returns ch), so c is p or the
\* same letter of ASCII in the other case
Canonicalize_Same(c, p) == c = p \/ \E k \in 1..26 : {c, p} = {UpperCase[k], LowerCase[k]}

HexDigits == <<"0", "1", "2", "3", "4", "5", "6", "7", "8", "9", "A", "B", "C", "D", "E", "F">>

\* the characters of the code units 0 to 127
Ascii == <<
    "U+0000", "U+0001", "U+0002", "U+0003", "U+0004", "U+0005", "U+0006", "U+0007", "U+0008",
    "\t", "\n", "U+000B", "\f", "\r", "U+000E", "U+000F", "U+0010", "U+0011", "U+0012",
    "U+0013", "U+0014", "U+0015", "U+0016", "U+0017", "U+0018", "U+0019", "U+001A", "U+001B",
    "U+001C", "U+001D", "U+001E", "U+001F", " ", "!", "\"", "#", "$", "%", "&", "'", "(", ")",
    "*", "+", ",", "-", ".", "/", "0", "1", "2", "3", "4", "5", "6", "7", "8", "9", ":", ";",
    "<", "=", ">", "?", "@", "A", "B", "C", "D", "E", "F", "G", "H", "I", "J", "K", "L", "M",
    "N", "O", "P", "Q", "R", "S", "T", "U", "V", "W", "X", "Y", "Z", "[", "\\", "]", "^", "_",
    "U+0060", "a", "b", "c", "d", "e", "f", "g", "h", "i", "j", "k", "l", "m", "n", "o", "p",
    "q", "r", "s", "t", "u", "v", "w", "x", "y", "z", "{", "|", "}", "~", "U+007F">>

\* the code unit of a character: of one written as itself, its place in
\* Ascii; of one named by its code unit, the number the name gives
CodeUnit(c) ==
    LET HexValue(d) == CHOOSE v \in 0..15 : HexDigits[v + 1] = d
    IN  IF Len(c) = 1 THEN CHOOSE n \in 0..127 : Ascii[n + 1] = c
        ELSE 4096 * HexValue(SubSeq(c, 3, 3)) + 256 * HexValue(SubSeq(c, 4, 4))
             + 16 * HexValue(SubSeq(c, 5, 5)) + HexValue(SubSeq(c, 6, 6))

\* the character of a code unit: beyond ASCII its name, "U+" and four
\* hexadecimal digits
Unit(n) ==
    IF n < 128 THEN Ascii[n + 1]
    ELSE "U+" \o HexDigits[(n \div 4096) + 1] \o HexDigits[((n \div 256) % 16) + 1]
              \o HexDigits[((n \div 16) % 16) + 1] \o HexDigits[(n % 16) + 1]

\* StringToCodePoints of ECMAScript: the code points of a text of code units,
\* a lead surrogate (0xD800-0xDBFF) and the trail surrogate (0xDC00-0xDFFF)
\* after it read as one code point (UTF16SurrogatePairToCodePoint), and a
\* surrogate that stands alone as itself
RECURSIVE StringToCodePoints(_)
StringToCodePoints(s) ==
    IF Len(s) = 0 THEN <<>>
    ELSE LET first == CodeUnit(s[1])
         IN  IF /\ first \in \hD800..\hDBFF
                /\ Len(s) >= 2
                /\ CodeUnit(s[2]) \in \hDC00..\hDFFF
             THEN <<(first - \hD800) * \h400 + (CodeUnit(s[2]) - \hDC00) + \h10000>>
                  \o StringToCodePoints(SubSeq(s, 3, Len(s)))
             ELSE <<first>> \o StringToCodePoints(Tail(s))

\* CodePointsToString of ECMAScript: UTF16EncodeCodePoint of each code point
RECURSIVE CodePointsToString(_)
CodePointsToString(cps) ==
    IF Len(cps) = 0 THEN <<>>
    ELSE LET cp == Head(cps)
         IN  (IF cp < \h10000
              THEN <<Unit(cp)>>
              ELSE <<Unit(\hD800 + ((cp - \h10000) \div \h400)),
                     Unit(\hDC00 + ((cp - \h10000) % \h400))>>)
             \o CodePointsToString(Tail(cps))

\* The lower-case mapping of a code point in UnicodeData.txt (Unicode 17.0),
\* or the code point itself when it has none.  In ASCII the capitals A to Z
\* have one.  Beyond ASCII <<first, last, step, to>> stands for the code
\* points first, first + step, ..., last: first is mapped to the code point
\* to, first + step to to + step, and so on.
SimpleLowercase(cp) ==
    IF cp < 128
    THEN IF cp \in \h41..\h5A THEN cp + 32 ELSE cp
    ELSE LET rs == {r \in {
        <<\h00C0, \h00D6, 1, \h00E0>>, <<\h00D8, \h00DE, 1, \h00F8>>,
        <<\h0100, \h012E, 2, \h0101>>, <<\h0130, \h0130, 1, \h0069>>,
        <<\h0132, \h0136, 2, \h0133>>, <<\h0139, \h0147, 2, \h013A>>,
        <<\h014A, \h0176, 2, \h014B>>, <<\h0178, \h0178, 1, \h00FF>>,
        <<\h0179, \h017D, 2, \h017A>>, <<\h0181, \h0181, 1, \h0253>>,
        <<\h0182, \h0184, 2, \h0183>>, <<\h0186, \h0186, 1, \h0254>>,
        <<\h0187, \h0187, 1, \h0188>>, <<\h0189, \h018A, 1, \h0256>>,
        <<\h018B, \h018B, 1, \h018C>>, <<\h018E, \h018E, 1, \h01DD>>,
        <<\h018F, \h018F, 1, \h0259>>, <<\h0190, \h0190, 1, \h025B>>,
        <<\h0191, \h0191, 1, \h0192>>, <<\h0193, \h0193, 1, \h0260>>,
        <<\h0194, \h0194, 1, \h0263>>, <<\h0196, \h0196, 1, \h0269>>,
        <<\h0197, \h0197, 1, \h0268>>, <<\h0198, \h0198, 1, \h0199>>,
        <<\h019C, \h019C, 1, \h026F>>, <<\h019D, \h019D, 1, \h0272>>,
        <<\h019F, \h019F, 1, \h0275>>, <<\h01A0, \h01A4, 2, \h01A1>>,
        <<\h01A6, \h01A6, 1, \h0280>>, <<\h01A7, \h01A7, 1, \h01A8>>,
        <<\h01A9, \h01A9, 1, \h0283>>, <<\h01AC, \h01AC, 1, \h01AD>>,
        <<\h01AE, \h01AE, 1, \h0288>>, <<\h01AF, \h01AF, 1, \h01B0>>,
        <<\h01B1, \h01B2, 1, \h028A>>, <<\h01B3, \h01B5, 2, \h01B4>>,
        <<\h01B7, \h01B7, 1, \h0292>>, <<\h01B8, \h01B8, 1, \h01B9>>,
        <<\h01BC, \h01BC, 1, \h01BD>>, <<\h01C4, \h01C4, 1, \h01C6>>,
        <<\h01C5, \h01C5, 1, \h01C6>>, <<\h01C7, \h01C7, 1, \h01C9>>,
        <<\h01C8, \h01C8, 1, \h01C9>>, <<\h01CA, \h01CA, 1, \h01CC>>,
        <<\h01CB, \h01DB, 2, \h01CC>>, <<\h01DE, \h01EE, 2, \h01DF>>,
        <<\h01F1, \h01F1, 1, \h01F3>>, <<\h01F2, \h01F4, 2, \h01F3>>,
        <<\h01F6, \h01F6, 1, \h0195>>, <<\h01F7, \h01F7, 1, \h01BF>>,
        <<\h01F8, \h021E, 2, \h01F9>>, <<\h0220, \h0220, 1, \h019E>>,
        <<\h0222, \h0232, 2, \h0223>>, <<\h023A, \h023A, 1, \h2C65>>,
        <<\h023B, \h023B, 1, \h023C>>, <<\h023D, \h023D, 1, \h019A>>,
        <<\h023E, \h023E, 1, \h2C66>>, <<\h0241, \h0241, 1, \h0242>>,
        <<\h0243, \h0243, 1, \h0180>>, <<\h0244, \h0244, 1, \h0289>>,
        <<\h0245, \h0245, 1, \h028C>>, <<\h0246, \h024E, 2, \h0247>>,
        <<\h0370, \h0372, 2, \h0371>>, <<\h0376, \h0376, 1, \h0377>>,
        <<\h037F, \h037F, 1, \h03F3>>, <<\h0386, \h0386, 1, \h03AC>>,
        <<\h0388, \h038A, 1, \h03AD>>, <<\h038C, \h038C, 1, \h03CC>>,
        <<\h038E, \h038F, 1, \h03CD>>, <<\h0391, \h03A1, 1, \h03B1>>,
        <<\h03A3, \h03AB, 1, \h03C3>>, <<\h03CF, \h03CF, 1, \h03D7>>,
        <<\h03D8, \h03EE, 2, \h03D9>>, <<\h03F4, \h03F4, 1, \h03B8>>,
        <<\h03F7, \h03F7, 1, \h03F8>>, <<\h03F9, \h03F9, 1, \h03F2>>,
        <<\h03FA, \h03FA, 1, \h03FB>>, <<\h03FD, \h03FF, 1, \h037B>>,
        <<\h0400, \h040F, 1, \h0450>>, <<\h0410, \h042F, 1, \h0430>>,
        <<\h0460, \h0480, 2, \h0461>>, <<\h048A, \h04BE, 2, \h048B>>,
        <<\h04C0, \h04C0, 1, \h04CF>>, <<\h04C1, \h04CD, 2, \h04C2>>,
        <<\h04D0, \h052E, 2, \h04D1>>, <<\h0531, \h0556, 1, \h0561>>,
        <<\h10A0, \h10C5, 1, \h2D00>>, <<\h10C7, \h10C7, 1, \h2D27>>,
        <<\h10CD, \h10CD, 1, \h2D2D>>, <<\h13A0, \h13EF, 1, \hAB70>>,
        <<\h13F0, \h13F5, 1, \h13F8>>, <<\h1C89, \h1C89, 1, \h1C8A>>,
        <<\h1C90, \h1CBA, 1, \h10D0>>, <<\h1CBD, \h1CBF, 1, \h10FD>>,
        <<\h1E00, \h1E94, 2, \h1E01>>, <<\h1E9E, \h1E9E, 1, \h00DF>>,
        <<\h1EA0, \h1EFE, 2, \h1EA1>>, <<\h1F08, \h1F0F, 1, \h1F00>>,
        <<\h1F18, \h1F1D, 1, \h1F10>>, <<\h1F28, \h1F2F, 1, \h1F20>>,
        <<\h1F38, \h1F3F, 1, \h1F30>>, <<\h1F48, \h1F4D, 1, \h1F40>>,
        <<\h1F59, \h1F5F, 2, \h1F51>>, <<\h1F68, \h1F6F, 1, \h1F60>>,
        <<\h1F88, \h1F8F, 1, \h1F80>>, <<\h1F98, \h1F9F, 1, \h1F90>>,
        <<\h1FA8, \h1FAF, 1, \h1FA0>>, <<\h1FB8, \h1FB9, 1, \h1FB0>>,
        <<\h1FBA, \h1FBB, 1, \h1F70>>, <<\h1FBC, \h1FBC, 1, \h1FB3>>,
        <<\h1FC8, \h1FCB, 1, \h1F72>>, <<\h1FCC, \h1FCC, 1, \h1FC3>>,
        <<\h1FD8, \h1FD9, 1, \h1FD0>>, <<\h1FDA, \h1FDB, 1, \h1F76>>,
        <<\h1FE8, \h1FE9, 1, \h1FE0>>, <<\h1FEA, \h1FEB, 1, \h1F7A>>,
        <<\h1FEC, \h1FEC, 1, \h1FE5>>, <<\h1FF8, \h1FF9, 1, \h1F78>>,
        <<\h1FFA, \h1FFB, 1, \h1F7C>>, <<\h1FFC, \h1FFC, 1, \h1FF3>>,
        <<\h2126, \h2126, 1, \h03C9>>, <<\h212A, \h212A, 1, \h006B>>,
        <<\h212B, \h212B, 1, \h00E5>>, <<\h2132, \h2132, 1, \h214E>>,
        <<\h2160, \h216F, 1, \h2170>>, <<\h2183, \h2183, 1, \h2184>>,
        <<\h24B6, \h24CF, 1, \h24D0>>, <<\h2C00, \h2C2F, 1, \h2C30>>,
        <<\h2C60, \h2C60, 1, \h2C61>>, <<\h2C62, \h2C62, 1, \h026B>>,
        <<\h2C63, \h2C63, 1, \h1D7D>>, <<\h2C64, \h2C64, 1, \h027D>>,
        <<\h2C67, \h2C6B, 2, \h2C68>>, <<\h2C6D, \h2C6D, 1, \h0251>>,
        <<\h2C6E, \h2C6E, 1, \h0271>>, <<\h2C6F, \h2C6F, 1, \h0250>>,
        <<\h2C70, \h2C70, 1, \h0252>>, <<\h2C72, \h2C72, 1, \h2C73>>,
        <<\h2C75, \h2C75, 1, \h2C76>>, <<\h2C7E, \h2C7F, 1, \h023F>>,
        <<\h2C80, \h2CE2, 2, \h2C81>>, <<\h2CEB, \h2CED, 2, \h2CEC>>,
        <<\h2CF2, \h2CF2, 1, \h2CF3>>, <<\hA640, \hA66C, 2, \hA641>>,
        <<\hA680, \hA69A, 2, \hA681>>, <<\hA722, \hA72E, 2, \hA723>>,
        <<\hA732, \hA76E, 2, \hA733>>, <<\hA779, \hA77B, 2, \hA77A>>,
        <<\hA77D, \hA77D, 1, \h1D79>>, <<\hA77E, \hA786, 2, \hA77F>>,
        <<\hA78B, \hA78B, 1, \hA78C>>, <<\hA78D, \hA78D, 1, \h0265>>,
        <<\hA790, \hA792, 2, \hA791>>, <<\hA796, \hA7A8, 2, \hA797>>,
        <<\hA7AA, \hA7AA, 1, \h0266>>, <<\hA7AB, \hA7AB, 1, \h025C>>,
        <<\hA7AC, \hA7AC, 1, \h0261>>, <<\hA7AD, \hA7AD, 1, \h026C>>,
        <<\hA7AE, \hA7AE, 1, \h026A>>, <<\hA7B0, \hA7B0, 1, \h029E>>,
        <<\hA7B1, \hA7B1, 1, \h0287>>, <<\hA7B2, \hA7B2, 1, \h029D>>,
        <<\hA7B3, \hA7B3, 1, \hAB53>>, <<\hA7B4, \hA7C2, 2, \hA7B5>>,
        <<\hA7C4, \hA7C4, 1, \hA794>>, <<\hA7C5, \hA7C5, 1, \h0282>>,
        <<\hA7C6, \hA7C6, 1, \h1D8E>>, <<\hA7C7, \hA7C9, 2, \hA7C8>>,
        <<\hA7CB, \hA7CB, 1, \h0264>>, <<\hA7CC, \hA7DA, 2, \hA7CD>>,
        <<\hA7DC, \hA7DC, 1, \h019B>>, <<\hA7F5, \hA7F5, 1, \hA7F6>>,
        <<\hFF21, \hFF3A, 1, \hFF41>>, <<\h10400, \h10427, 1, \h10428>>,
        <<\h104B0, \h104D3, 1, \h104D8>>, <<\h10570, \h1057A, 1, \h10597>>,
        <<\h1057C, \h1058A, 1, \h105A3>>, <<\h1058C, \h10592, 1, \h105B3>>,
        <<\h10594, \h10595, 1, \h105BB>>, <<\h10C80, \h10CB2, 1, \h10CC0>>,
        <<\h10D50, \h10D65, 1, \h10D70>>, <<\h118A0, \h118BF, 1, \h118C0>>,
        <<\h16E40, \h16E5F, 1, \h16E60>>, <<\h16EA0, \h16EB8, 1, \h16EBB>>,
        <<\h1E900, \h1E921, 1, \h1E922>>} :
                       /\ r[1] <= cp
                       /\ cp <= r[2]
                       /\ (cp - r[1]) % r[3] = 0}
         IN  IF rs = {} THEN cp
             ELSE LET r == CHOOSE x \in rs : TRUE IN r[4] + (cp - r[1])

\* D135 of the Unicode Standard, a letter with a case: the property Cased of
\* DerivedCoreProperties.txt.  In ASCII the letters; beyond ASCII the ranges
\* <<first, last>> (Unicode 17.0).
Cased(cp) ==
    IF cp < 128
    THEN cp \in \h41..\h5A \/ cp \in \h61..\h7A
    ELSE \E r \in {
    <<\h00AA, \h00AA>>, <<\h00B5, \h00B5>>, <<\h00BA, \h00BA>>, <<\h00C0, \h00D6>>,
    <<\h00D8, \h00F6>>, <<\h00F8, \h01BA>>, <<\h01BC, \h01BF>>, <<\h01C4, \h0293>>,
    <<\h0296, \h02B8>>, <<\h02C0, \h02C1>>, <<\h02E0, \h02E4>>, <<\h0345, \h0345>>,
    <<\h0370, \h0373>>, <<\h0376, \h0377>>, <<\h037A, \h037D>>, <<\h037F, \h037F>>,
    <<\h0386, \h0386>>, <<\h0388, \h038A>>, <<\h038C, \h038C>>, <<\h038E, \h03A1>>,
    <<\h03A3, \h03F5>>, <<\h03F7, \h0481>>, <<\h048A, \h052F>>, <<\h0531, \h0556>>,
    <<\h0560, \h0588>>, <<\h10A0, \h10C5>>, <<\h10C7, \h10C7>>, <<\h10CD, \h10CD>>,
    <<\h10D0, \h10FA>>, <<\h10FC, \h10FF>>, <<\h13A0, \h13F5>>, <<\h13F8, \h13FD>>,
    <<\h1C80, \h1C8A>>, <<\h1C90, \h1CBA>>, <<\h1CBD, \h1CBF>>, <<\h1D00, \h1DBF>>,
    <<\h1E00, \h1F15>>, <<\h1F18, \h1F1D>>, <<\h1F20, \h1F45>>, <<\h1F48, \h1F4D>>,
    <<\h1F50, \h1F57>>, <<\h1F59, \h1F59>>, <<\h1F5B, \h1F5B>>, <<\h1F5D, \h1F5D>>,
    <<\h1F5F, \h1F7D>>, <<\h1F80, \h1FB4>>, <<\h1FB6, \h1FBC>>, <<\h1FBE, \h1FBE>>,
    <<\h1FC2, \h1FC4>>, <<\h1FC6, \h1FCC>>, <<\h1FD0, \h1FD3>>, <<\h1FD6, \h1FDB>>,
    <<\h1FE0, \h1FEC>>, <<\h1FF2, \h1FF4>>, <<\h1FF6, \h1FFC>>, <<\h2071, \h2071>>,
    <<\h207F, \h207F>>, <<\h2090, \h209C>>, <<\h2102, \h2102>>, <<\h2107, \h2107>>,
    <<\h210A, \h2113>>, <<\h2115, \h2115>>, <<\h2119, \h211D>>, <<\h2124, \h2124>>,
    <<\h2126, \h2126>>, <<\h2128, \h2128>>, <<\h212A, \h212D>>, <<\h212F, \h2134>>,
    <<\h2139, \h2139>>, <<\h213C, \h213F>>, <<\h2145, \h2149>>, <<\h214E, \h214E>>,
    <<\h2160, \h217F>>, <<\h2183, \h2184>>, <<\h24B6, \h24E9>>, <<\h2C00, \h2CE4>>,
    <<\h2CEB, \h2CEE>>, <<\h2CF2, \h2CF3>>, <<\h2D00, \h2D25>>, <<\h2D27, \h2D27>>,
    <<\h2D2D, \h2D2D>>, <<\hA640, \hA66D>>, <<\hA680, \hA69D>>, <<\hA722, \hA787>>,
    <<\hA78B, \hA78E>>, <<\hA790, \hA7DC>>, <<\hA7F1, \hA7F6>>, <<\hA7F8, \hA7FA>>,
    <<\hAB30, \hAB5A>>, <<\hAB5C, \hAB69>>, <<\hAB70, \hABBF>>, <<\hFB00, \hFB06>>,
    <<\hFB13, \hFB17>>, <<\hFF21, \hFF3A>>, <<\hFF41, \hFF5A>>, <<\h10400, \h1044F>>,
    <<\h104B0, \h104D3>>, <<\h104D8, \h104FB>>, <<\h10570, \h1057A>>, <<\h1057C, \h1058A>>,
    <<\h1058C, \h10592>>, <<\h10594, \h10595>>, <<\h10597, \h105A1>>, <<\h105A3, \h105B1>>,
    <<\h105B3, \h105B9>>, <<\h105BB, \h105BC>>, <<\h10780, \h10780>>, <<\h10783, \h10785>>,
    <<\h10787, \h107B0>>, <<\h107B2, \h107BA>>, <<\h10C80, \h10CB2>>, <<\h10CC0, \h10CF2>>,
    <<\h10D50, \h10D65>>, <<\h10D70, \h10D85>>, <<\h118A0, \h118DF>>, <<\h16E40, \h16E7F>>,
    <<\h16EA0, \h16EB8>>, <<\h16EBB, \h16ED3>>, <<\h1D400, \h1D454>>, <<\h1D456, \h1D49C>>,
    <<\h1D49E, \h1D49F>>, <<\h1D4A2, \h1D4A2>>, <<\h1D4A5, \h1D4A6>>, <<\h1D4A9, \h1D4AC>>,
    <<\h1D4AE, \h1D4B9>>, <<\h1D4BB, \h1D4BB>>, <<\h1D4BD, \h1D4C3>>, <<\h1D4C5, \h1D505>>,
    <<\h1D507, \h1D50A>>, <<\h1D50D, \h1D514>>, <<\h1D516, \h1D51C>>, <<\h1D51E, \h1D539>>,
    <<\h1D53B, \h1D53E>>, <<\h1D540, \h1D544>>, <<\h1D546, \h1D546>>, <<\h1D54A, \h1D550>>,
    <<\h1D552, \h1D6A5>>, <<\h1D6A8, \h1D6C0>>, <<\h1D6C2, \h1D6DA>>, <<\h1D6DC, \h1D6FA>>,
    <<\h1D6FC, \h1D714>>, <<\h1D716, \h1D734>>, <<\h1D736, \h1D74E>>, <<\h1D750, \h1D76E>>,
    <<\h1D770, \h1D788>>, <<\h1D78A, \h1D7A8>>, <<\h1D7AA, \h1D7C2>>, <<\h1D7C4, \h1D7CB>>,
    <<\h1DF00, \h1DF09>>, <<\h1DF0B, \h1DF1E>>, <<\h1DF25, \h1DF2A>>, <<\h1E030, \h1E06D>>,
    <<\h1E900, \h1E943>>, <<\h1F130, \h1F149>>, <<\h1F150, \h1F169>>, <<\h1F170, \h1F189>>} : r[1] <= cp /\ cp <= r[2]

\* D136 of the Unicode Standard: the property Case_Ignorable of
\* DerivedCoreProperties.txt.  In ASCII the characters ' . : ^ and the grave
\* accent; beyond ASCII the ranges <<first, last>> (Unicode 17.0).
Case_Ignorable(cp) ==
    IF cp < 128
    THEN cp \in {\h27, \h2E, \h3A, \h5E, \h60}
    ELSE \E r \in {
    <<\h00A8, \h00A8>>, <<\h00AD, \h00AD>>, <<\h00AF, \h00AF>>, <<\h00B4, \h00B4>>,
    <<\h00B7, \h00B8>>, <<\h02B0, \h036F>>, <<\h0374, \h0375>>, <<\h037A, \h037A>>,
    <<\h0384, \h0385>>, <<\h0387, \h0387>>, <<\h0483, \h0489>>, <<\h0559, \h0559>>,
    <<\h055F, \h055F>>, <<\h0591, \h05BD>>, <<\h05BF, \h05BF>>, <<\h05C1, \h05C2>>,
    <<\h05C4, \h05C5>>, <<\h05C7, \h05C7>>, <<\h05F4, \h05F4>>, <<\h0600, \h0605>>,
    <<\h0610, \h061A>>, <<\h061C, \h061C>>, <<\h0640, \h0640>>, <<\h064B, \h065F>>,
    <<\h0670, \h0670>>, <<\h06D6, \h06DD>>, <<\h06DF, \h06E8>>, <<\h06EA, \h06ED>>,
    <<\h070F, \h070F>>, <<\h0711, \h0711>>, <<\h0730, \h074A>>, <<\h07A6, \h07B0>>,
    <<\h07EB, \h07F5>>, <<\h07FA, \h07FA>>, <<\h07FD, \h07FD>>, <<\h0816, \h082D>>,
    <<\h0859, \h085B>>, <<\h0888, \h0888>>, <<\h0890, \h0891>>, <<\h0897, \h089F>>,
    <<\h08C9, \h0902>>, <<\h093A, \h093A>>, <<\h093C, \h093C>>, <<\h0941, \h0948>>,
    <<\h094D, \h094D>>, <<\h0951, \h0957>>, <<\h0962, \h0963>>, <<\h0971, \h0971>>,
    <<\h0981, \h0981>>, <<\h09BC, \h09BC>>, <<\h09C1, \h09C4>>, <<\h09CD, \h09CD>>,
    <<\h09E2, \h09E3>>, <<\h09FE, \h09FE>>, <<\h0A01, \h0A02>>, <<\h0A3C, \h0A3C>>,
    <<\h0A41, \h0A42>>, <<\h0A47, \h0A48>>, <<\h0A4B, \h0A4D>>, <<\h0A51, \h0A51>>,
    <<\h0A70, \h0A71>>, <<\h0A75, \h0A75>>, <<\h0A81, \h0A82>>, <<\h0ABC, \h0ABC>>,
    <<\h0AC1, \h0AC5>>, <<\h0AC7, \h0AC8>>, <<\h0ACD, \h0ACD>>, <<\h0AE2, \h0AE3>>,
    <<\h0AFA, \h0AFF>>, <<\h0B01, \h0B01>>, <<\h0B3C, \h0B3C>>, <<\h0B3F, \h0B3F>>,
    <<\h0B41, \h0B44>>, <<\h0B4D, \h0B4D>>, <<\h0B55, \h0B56>>, <<\h0B62, \h0B63>>,
    <<\h0B82, \h0B82>>, <<\h0BC0, \h0BC0>>, <<\h0BCD, \h0BCD>>, <<\h0C00, \h0C00>>,
    <<\h0C04, \h0C04>>, <<\h0C3C, \h0C3C>>, <<\h0C3E, \h0C40>>, <<\h0C46, \h0C48>>,
    <<\h0C4A, \h0C4D>>, <<\h0C55, \h0C56>>, <<\h0C62, \h0C63>>, <<\h0C81, \h0C81>>,
    <<\h0CBC, \h0CBC>>, <<\h0CBF, \h0CBF>>, <<\h0CC6, \h0CC6>>, <<\h0CCC, \h0CCD>>,
    <<\h0CE2, \h0CE3>>, <<\h0D00, \h0D01>>, <<\h0D3B, \h0D3C>>, <<\h0D41, \h0D44>>,
    <<\h0D4D, \h0D4D>>, <<\h0D62, \h0D63>>, <<\h0D81, \h0D81>>, <<\h0DCA, \h0DCA>>,
    <<\h0DD2, \h0DD4>>, <<\h0DD6, \h0DD6>>, <<\h0E31, \h0E31>>, <<\h0E34, \h0E3A>>,
    <<\h0E46, \h0E4E>>, <<\h0EB1, \h0EB1>>, <<\h0EB4, \h0EBC>>, <<\h0EC6, \h0EC6>>,
    <<\h0EC8, \h0ECE>>, <<\h0F18, \h0F19>>, <<\h0F35, \h0F35>>, <<\h0F37, \h0F37>>,
    <<\h0F39, \h0F39>>, <<\h0F71, \h0F7E>>, <<\h0F80, \h0F84>>, <<\h0F86, \h0F87>>,
    <<\h0F8D, \h0F97>>, <<\h0F99, \h0FBC>>, <<\h0FC6, \h0FC6>>, <<\h102D, \h1030>>,
    <<\h1032, \h1037>>, <<\h1039, \h103A>>, <<\h103D, \h103E>>, <<\h1058, \h1059>>,
    <<\h105E, \h1060>>, <<\h1071, \h1074>>, <<\h1082, \h1082>>, <<\h1085, \h1086>>,
    <<\h108D, \h108D>>, <<\h109D, \h109D>>, <<\h10FC, \h10FC>>, <<\h135D, \h135F>>,
    <<\h1712, \h1714>>, <<\h1732, \h1733>>, <<\h1752, \h1753>>, <<\h1772, \h1773>>,
    <<\h17B4, \h17B5>>, <<\h17B7, \h17BD>>, <<\h17C6, \h17C6>>, <<\h17C9, \h17D3>>,
    <<\h17D7, \h17D7>>, <<\h17DD, \h17DD>>, <<\h180B, \h180F>>, <<\h1843, \h1843>>,
    <<\h1885, \h1886>>, <<\h18A9, \h18A9>>, <<\h1920, \h1922>>, <<\h1927, \h1928>>,
    <<\h1932, \h1932>>, <<\h1939, \h193B>>, <<\h1A17, \h1A18>>, <<\h1A1B, \h1A1B>>,
    <<\h1A56, \h1A56>>, <<\h1A58, \h1A5E>>, <<\h1A60, \h1A60>>, <<\h1A62, \h1A62>>,
    <<\h1A65, \h1A6C>>, <<\h1A73, \h1A7C>>, <<\h1A7F, \h1A7F>>, <<\h1AA7, \h1AA7>>,
    <<\h1AB0, \h1ADD>>, <<\h1AE0, \h1AEB>>, <<\h1B00, \h1B03>>, <<\h1B34, \h1B34>>,
    <<\h1B36, \h1B3A>>, <<\h1B3C, \h1B3C>>, <<\h1B42, \h1B42>>, <<\h1B6B, \h1B73>>,
    <<\h1B80, \h1B81>>, <<\h1BA2, \h1BA5>>, <<\h1BA8, \h1BA9>>, <<\h1BAB, \h1BAD>>,
    <<\h1BE6, \h1BE6>>, <<\h1BE8, \h1BE9>>, <<\h1BED, \h1BED>>, <<\h1BEF, \h1BF1>>,
    <<\h1C2C, \h1C33>>, <<\h1C36, \h1C37>>, <<\h1C78, \h1C7D>>, <<\h1CD0, \h1CD2>>,
    <<\h1CD4, \h1CE0>>, <<\h1CE2, \h1CE8>>, <<\h1CED, \h1CED>>, <<\h1CF4, \h1CF4>>,
    <<\h1CF8, \h1CF9>>, <<\h1D2C, \h1D6A>>, <<\h1D78, \h1D78>>, <<\h1D9B, \h1DFF>>,
    <<\h1FBD, \h1FBD>>, <<\h1FBF, \h1FC1>>, <<\h1FCD, \h1FCF>>, <<\h1FDD, \h1FDF>>,
    <<\h1FED, \h1FEF>>, <<\h1FFD, \h1FFE>>, <<\h200B, \h200F>>, <<\h2018, \h2019>>,
    <<\h2024, \h2024>>, <<\h2027, \h2027>>, <<\h202A, \h202E>>, <<\h2060, \h2064>>,
    <<\h2066, \h206F>>, <<\h2071, \h2071>>, <<\h207F, \h207F>>, <<\h2090, \h209C>>,
    <<\h20D0, \h20F0>>, <<\h2C7C, \h2C7D>>, <<\h2CEF, \h2CF1>>, <<\h2D6F, \h2D6F>>,
    <<\h2D7F, \h2D7F>>, <<\h2DE0, \h2DFF>>, <<\h2E2F, \h2E2F>>, <<\h3005, \h3005>>,
    <<\h302A, \h302D>>, <<\h3031, \h3035>>, <<\h303B, \h303B>>, <<\h3099, \h309E>>,
    <<\h30FC, \h30FE>>, <<\hA015, \hA015>>, <<\hA4F8, \hA4FD>>, <<\hA60C, \hA60C>>,
    <<\hA66F, \hA672>>, <<\hA674, \hA67D>>, <<\hA67F, \hA67F>>, <<\hA69C, \hA69F>>,
    <<\hA6F0, \hA6F1>>, <<\hA700, \hA721>>, <<\hA770, \hA770>>, <<\hA788, \hA78A>>,
    <<\hA7F1, \hA7F4>>, <<\hA7F8, \hA7F9>>, <<\hA802, \hA802>>, <<\hA806, \hA806>>,
    <<\hA80B, \hA80B>>, <<\hA825, \hA826>>, <<\hA82C, \hA82C>>, <<\hA8C4, \hA8C5>>,
    <<\hA8E0, \hA8F1>>, <<\hA8FF, \hA8FF>>, <<\hA926, \hA92D>>, <<\hA947, \hA951>>,
    <<\hA980, \hA982>>, <<\hA9B3, \hA9B3>>, <<\hA9B6, \hA9B9>>, <<\hA9BC, \hA9BD>>,
    <<\hA9CF, \hA9CF>>, <<\hA9E5, \hA9E6>>, <<\hAA29, \hAA2E>>, <<\hAA31, \hAA32>>,
    <<\hAA35, \hAA36>>, <<\hAA43, \hAA43>>, <<\hAA4C, \hAA4C>>, <<\hAA70, \hAA70>>,
    <<\hAA7C, \hAA7C>>, <<\hAAB0, \hAAB0>>, <<\hAAB2, \hAAB4>>, <<\hAAB7, \hAAB8>>,
    <<\hAABE, \hAABF>>, <<\hAAC1, \hAAC1>>, <<\hAADD, \hAADD>>, <<\hAAEC, \hAAED>>,
    <<\hAAF3, \hAAF4>>, <<\hAAF6, \hAAF6>>, <<\hAB5B, \hAB5F>>, <<\hAB69, \hAB6B>>,
    <<\hABE5, \hABE5>>, <<\hABE8, \hABE8>>, <<\hABED, \hABED>>, <<\hFB1E, \hFB1E>>,
    <<\hFBB2, \hFBC2>>, <<\hFE00, \hFE0F>>, <<\hFE13, \hFE13>>, <<\hFE20, \hFE2F>>,
    <<\hFE52, \hFE52>>, <<\hFE55, \hFE55>>, <<\hFEFF, \hFEFF>>, <<\hFF07, \hFF07>>,
    <<\hFF0E, \hFF0E>>, <<\hFF1A, \hFF1A>>, <<\hFF3E, \hFF3E>>, <<\hFF40, \hFF40>>,
    <<\hFF70, \hFF70>>, <<\hFF9E, \hFF9F>>, <<\hFFE3, \hFFE3>>, <<\hFFF9, \hFFFB>>,
    <<\h101FD, \h101FD>>, <<\h102E0, \h102E0>>, <<\h10376, \h1037A>>, <<\h10780, \h10785>>,
    <<\h10787, \h107B0>>, <<\h107B2, \h107BA>>, <<\h10A01, \h10A03>>, <<\h10A05, \h10A06>>,
    <<\h10A0C, \h10A0F>>, <<\h10A38, \h10A3A>>, <<\h10A3F, \h10A3F>>, <<\h10AE5, \h10AE6>>,
    <<\h10D24, \h10D27>>, <<\h10D4E, \h10D4E>>, <<\h10D69, \h10D6D>>, <<\h10D6F, \h10D6F>>,
    <<\h10EAB, \h10EAC>>, <<\h10EC5, \h10EC5>>, <<\h10EFA, \h10EFF>>, <<\h10F46, \h10F50>>,
    <<\h10F82, \h10F85>>, <<\h11001, \h11001>>, <<\h11038, \h11046>>, <<\h11070, \h11070>>,
    <<\h11073, \h11074>>, <<\h1107F, \h11081>>, <<\h110B3, \h110B6>>, <<\h110B9, \h110BA>>,
    <<\h110BD, \h110BD>>, <<\h110C2, \h110C2>>, <<\h110CD, \h110CD>>, <<\h11100, \h11102>>,
    <<\h11127, \h1112B>>, <<\h1112D, \h11134>>, <<\h11173, \h11173>>, <<\h11180, \h11181>>,
    <<\h111B6, \h111BE>>, <<\h111C9, \h111CC>>, <<\h111CF, \h111CF>>, <<\h1122F, \h11231>>,
    <<\h11234, \h11234>>, <<\h11236, \h11237>>, <<\h1123E, \h1123E>>, <<\h11241, \h11241>>,
    <<\h112DF, \h112DF>>, <<\h112E3, \h112EA>>, <<\h11300, \h11301>>, <<\h1133B, \h1133C>>,
    <<\h11340, \h11340>>, <<\h11366, \h1136C>>, <<\h11370, \h11374>>, <<\h113BB, \h113C0>>,
    <<\h113CE, \h113CE>>, <<\h113D0, \h113D0>>, <<\h113D2, \h113D2>>, <<\h113E1, \h113E2>>,
    <<\h11438, \h1143F>>, <<\h11442, \h11444>>, <<\h11446, \h11446>>, <<\h1145E, \h1145E>>,
    <<\h114B3, \h114B8>>, <<\h114BA, \h114BA>>, <<\h114BF, \h114C0>>, <<\h114C2, \h114C3>>,
    <<\h115B2, \h115B5>>, <<\h115BC, \h115BD>>, <<\h115BF, \h115C0>>, <<\h115DC, \h115DD>>,
    <<\h11633, \h1163A>>, <<\h1163D, \h1163D>>, <<\h1163F, \h11640>>, <<\h116AB, \h116AB>>,
    <<\h116AD, \h116AD>>, <<\h116B0, \h116B5>>, <<\h116B7, \h116B7>>, <<\h1171D, \h1171D>>,
    <<\h1171F, \h1171F>>, <<\h11722, \h11725>>, <<\h11727, \h1172B>>, <<\h1182F, \h11837>>,
    <<\h11839, \h1183A>>, <<\h1193B, \h1193C>>, <<\h1193E, \h1193E>>, <<\h11943, \h11943>>,
    <<\h119D4, \h119D7>>, <<\h119DA, \h119DB>>, <<\h119E0, \h119E0>>, <<\h11A01, \h11A0A>>,
    <<\h11A33, \h11A38>>, <<\h11A3B, \h11A3E>>, <<\h11A47, \h11A47>>, <<\h11A51, \h11A56>>,
    <<\h11A59, \h11A5B>>, <<\h11A8A, \h11A96>>, <<\h11A98, \h11A99>>, <<\h11B60, \h11B60>>,
    <<\h11B62, \h11B64>>, <<\h11B66, \h11B66>>, <<\h11C30, \h11C36>>, <<\h11C38, \h11C3D>>,
    <<\h11C3F, \h11C3F>>, <<\h11C92, \h11CA7>>, <<\h11CAA, \h11CB0>>, <<\h11CB2, \h11CB3>>,
    <<\h11CB5, \h11CB6>>, <<\h11D31, \h11D36>>, <<\h11D3A, \h11D3A>>, <<\h11D3C, \h11D3D>>,
    <<\h11D3F, \h11D45>>, <<\h11D47, \h11D47>>, <<\h11D90, \h11D91>>, <<\h11D95, \h11D95>>,
    <<\h11D97, \h11D97>>, <<\h11DD9, \h11DD9>>, <<\h11EF3, \h11EF4>>, <<\h11F00, \h11F01>>,
    <<\h11F36, \h11F3A>>, <<\h11F40, \h11F40>>, <<\h11F42, \h11F42>>, <<\h11F5A, \h11F5A>>,
    <<\h13430, \h13440>>, <<\h13447, \h13455>>, <<\h1611E, \h16129>>, <<\h1612D, \h1612F>>,
    <<\h16AF0, \h16AF4>>, <<\h16B30, \h16B36>>, <<\h16B40, \h16B43>>, <<\h16D40, \h16D42>>,
    <<\h16D6B, \h16D6C>>, <<\h16F4F, \h16F4F>>, <<\h16F8F, \h16F9F>>, <<\h16FE0, \h16FE1>>,
    <<\h16FE3, \h16FE4>>, <<\h16FF2, \h16FF3>>, <<\h1AFF0, \h1AFF3>>, <<\h1AFF5, \h1AFFB>>,
    <<\h1AFFD, \h1AFFE>>, <<\h1BC9D, \h1BC9E>>, <<\h1BCA0, \h1BCA3>>, <<\h1CF00, \h1CF2D>>,
    <<\h1CF30, \h1CF46>>, <<\h1D167, \h1D169>>, <<\h1D173, \h1D182>>, <<\h1D185, \h1D18B>>,
    <<\h1D1AA, \h1D1AD>>, <<\h1D242, \h1D244>>, <<\h1DA00, \h1DA36>>, <<\h1DA3B, \h1DA6C>>,
    <<\h1DA75, \h1DA75>>, <<\h1DA84, \h1DA84>>, <<\h1DA9B, \h1DA9F>>, <<\h1DAA1, \h1DAAF>>,
    <<\h1E000, \h1E006>>, <<\h1E008, \h1E018>>, <<\h1E01B, \h1E021>>, <<\h1E023, \h1E024>>,
    <<\h1E026, \h1E02A>>, <<\h1E030, \h1E06D>>, <<\h1E08F, \h1E08F>>, <<\h1E130, \h1E13D>>,
    <<\h1E2AE, \h1E2AE>>, <<\h1E2EC, \h1E2EF>>, <<\h1E4EB, \h1E4EF>>, <<\h1E5EE, \h1E5EF>>,
    <<\h1E6E3, \h1E6E3>>, <<\h1E6E6, \h1E6E6>>, <<\h1E6EE, \h1E6EF>>, <<\h1E6F5, \h1E6F5>>,
    <<\h1E6FF, \h1E6FF>>, <<\h1E8D0, \h1E8D6>>, <<\h1E944, \h1E94B>>, <<\h1F3FB, \h1F3FF>>,
    <<\hE0001, \hE0001>>, <<\hE0020, \hE007F>>, <<\hE0100, \hE01EF>>} : r[1] <= cp /\ cp <= r[2]

\* The condition Final_Sigma of SpecialCasing.txt for the code point at
\* position i of cps: before it, a cased letter and then case-ignorable
\* characters only; after it, no cased letter behind case-ignorable characters
\* only.  A character that is both cased and case-ignorable is passed over as
\* case-ignorable, as ICU does.
Final_Sigma(cps, i) ==
    /\ \E j \in 1..(i - 1) :
          /\ Cased(cps[j])
          /\ ~Case_Ignorable(cps[j])
          /\ \A k \in (j + 1)..(i - 1) : Case_Ignorable(cps[k])
    /\ ~\E j \in (i + 1)..Len(cps) :
           /\ Cased(cps[j])
           /\ ~Case_Ignorable(cps[j])
           /\ \A k \in (i + 1)..(j - 1) : Case_Ignorable(cps[k])

\* toLowercase of the Unicode Default Case Conversion algorithm for the code
\* points of cps from position i on: the entries of SpecialCasing.txt that do not
\* depend on the language (U+0130 becomes U+0069 U+0307, U+03A3 becomes U+03C2
\* under Final_Sigma), else the mapping of UnicodeData.txt
RECURSIVE toLowercase(_, _)
toLowercase(cps, i) ==
    IF i > Len(cps) THEN <<>>
    ELSE (IF cps[i] = \h0130 THEN <<\h0069, \h0307>>
          ELSE IF cps[i] = \h03A3 /\ Final_Sigma(cps, i) THEN <<\h03C2>>
          ELSE <<SimpleLowercase(cps[i])>>)
         \o toLowercase(cps, i + 1)

\* String.prototype.toLowerCase.  A text whose characters are all written as
\* themselves is a text of ASCII: every code unit is a code point whose
\* mapping does not depend on its neighbours, and the code points with a
\* mapping are the capitals A to Z
ToLowerCase(s) ==
    IF \A i \in 1..Len(s) : Len(s[i]) = 1
    THEN [i \in 1..Len(s) |->
            IF \E k \in 1..26 : UpperCase[k] = s[i]
            THEN LowerCase[CHOOSE k \in 1..26 : UpperCase[k] = s[i]]
            ELSE s[i]]
    ELSE CodePointsToString(toLowercase(StringToCodePoints(s), 1))

\* the text s from position i on
From(s, i) == SubSeq(s, i, Len(s))

\* whether the text p stands in s at position i
At(s, i, p) ==
    /\ i + Len(p) - 1 <= Len(s)
    /\ SubSeq(s, i, i + Len(p) - 1) = p

\* whether the text p of a pattern with flag i stands in s at position i
AtIgnoreCase(s, i, p) ==
    /\ i + Len(p) - 1 <= Len(s)
    /\ \A k \in 1..Len(p) : Canonicalize_Same(s[i + k - 1], p[k])

\* String.prototype.includes
Includes(s, p) == \E i \in 1..(Len(s) + 1) : At(s, i, p)

\* the length of the longest run of characters of set cs in s from position i:
\* what a greedy cs* consumes
Run(s, i, cs) ==
    LET stops == {k \in i..(Len(s) + 1) : k = Len(s) + 1 \/ s[k] \notin cs}
    IN  (CHOOSE k \in stops : \A j \in stops : k <= j) - i

\* the value of one decimal digit
DigitValue(c) == CHOOSE v \in 0..9 : <<"0", "1", "2", "3", "4", "5", "6", "7", "8", "9">>[v + 1] = c

\* parseInt returns NaN on a text that does not start with a digit
NaN == -1

RECURSIVE DecimalValue(_)
DecimalValue(ds) ==
    IF Len(ds) = 0 THEN 0
    ELSE 10 * DecimalValue(SubSeq(ds, 1, Len(ds) - 1)) + DigitValue(ds[Len(ds)])

\* parseInt(s) of a text with no sign and no leading blank: the value of its
\* leading digits, NaN when there are none
ParseInt(s) ==
    LET n == Run(s, 1, Digit)
    IN  IF n = 0 THEN NaN ELSE DecimalValue(SubSeq(s, 1, n))

\* Number.prototype.toString of an integer n >= 0
RECURSIVE toString(_)
toString(n) ==
    LET d == <<<<"0">>, <<"1">>, <<"2">>, <<"3">>, <<"4">>, <<"5">>, <<"6">>, <<"7">>, <<"8">>, <<"9">>>>[(n % 10) + 1]
    IN  IF n < 10 THEN d ELSE toString(n \div 10) \o d

\* s.replace(/,/g, '')
RemoveCommas(s) == SelectSeq(s, LAMBDA c : c # ",")

NoMatch == [ok |-> FALSE, user |-> <<>>, amount |-> <<>>]

\* /^\$(verb1|verb2)\s+<@!?(\d+)>\s+(\d+)/i  applied to content: the captures
\* 2 and 3 of the match, or NoMatch.  Every quantifier is greedy and none has
\* to give anything back: the character after each run is not in the run's set.
TriggerMatch(content, verbs) ==
    LET s  == content
        vs == {v \in verbs : AtIgnoreCase(s, 2, v)}
    IN  IF Len(s) = 0 \/ s[1] # "$" \/ vs = {} THEN NoMatch
        ELSE
        LET v  == CHOOSE x \in vs : TRUE
            p1 == 2 + Len(v)
            w1 == Run(s, p1, Space)
            p2 == p1 + w1
            p3 == IF At(s, p2 + 2, <<"!">>) THEN p2 + 3 ELSE p2 + 2
            d1 == Run(s, p3, Digit)
            p4 == p3 + d1
            w2 == Run(s, p4 + 1, Space)
            p5 == p4 + 1 + w2
            d2 == Run(s, p5, Digit)
        IN  IF /\ w1 >= 1
               /\ At(s, p2, <<"<", "@">>)
               /\ d1 >= 1
               /\ At(s, p4, <<">">>)
               /\ w2 >= 1
               /\ d2 >= 1
            THEN [ok |-> TRUE, user |-> SubSeq(s, p3, p4 - 1),
                  amount |-> SubSeq(s, p5, p5 + d2 - 1)]
            ELSE NoMatch

GiveVerbs == {<<"g", "i", "v", "e", "s", "c", "r", "a", "p">>,
              <<"g", "i", "v", "e", "k", "a", "k", "e", "r", "a">>}
TakeVerbs == {<<"k", "a", "k", "e", "r", "a", "r", "e", "m", "o", "v", "e">>,
              <<"t", "a", "k", "e", "k", "a", "k", "e", "r", "a">>}

\* const giveRegex = /^\$(givescrap|givekakera)\s+<@!?(\d+)>\s+(\d+)/i
giveRegex(content) == TriggerMatch(content, GiveVerbs)
\* const takeRegex = /^\$(kakeraremove|takekakera)\s+<@!?(\d+)>\s+(\d+)/i
takeRegex(content) == TriggerMatch(content, TakeVerbs)

ExemptMarker == <<"#", "e", "x", "e", "m", "p", "t">>
RemovedWord == <<"r", "e", "m", "o", "v", "e", "d">>
AddedWord == <<"(", "a", "d", "d", "e", "d">>

\* const mudaeRegex = /^\**([\d,]+)\**.*removed.*\(added/i  applied to content:
\* capture 1, or <<>> when there is no match.  After the run of digits and
\* commas the rest of the pattern asks that "removed" and, after it,
\* "(added" occur in what is left, with no line terminator before "(added":
\* the stars and both .* match on one line only.
mudaeRegex(content) ==
    LET a    == Run(content, 1, {"*"})
        b    == Run(content, 1 + a, Digit \cup {","})
        rest == From(content, 1 + a + b)
    IN  IF /\ b >= 1
           /\ \E i \in 1..Len(rest) :
                 /\ AtIgnoreCase(rest, i, RemovedWord)
                 /\ \E j \in (i + Len(RemovedWord))..Len(rest) :
                       /\ AtIgnoreCase(rest, j, AddedWord)
                       /\ \A k \in 1..(j - 1) : rest[k] \notin LineTerminator
        THEN SubSeq(content, 1 + a, a + b)
        ELSE <<>>


-----------------------------------------------------------------------------
(* The events the platform delivers *)

Variants == {"index", "part_000", "part_001a", "part_001b"}
\* the builds that keep pending entries
Correlating == {"index", "part_000", "part_001a"}
\* the builds that key repayments by channel and confirm them by a message
ChannelKeyed == {"part_000", "part_001a"}

\* message.author / user of a reaction / interaction.user
Admin == [id |-> "admin", bot |-> FALSE]
AdminBot == [id |-> "admin", bot |-> TRUE]
Stranger == [id |-> "stranger", bot |-> FALSE]
Mudae == [id |-> MUDAE_ID, bot |-> TRUE]
OtherBot == [id |-> "otherbot", bot |-> TRUE]
Users == {Admin, AdminBot, Stranger, Mudae, OtherBot}

\* $givescrap <@1> 100
GiveScrap100 == <<"$", "g", "i", "v", "e", "s", "c", "r", "a", "p", " ", "<", "@", "1", ">", " ", "1", "0", "0">>
\* $GiveKakera <@!1> 1000
GiveKakera1000 == <<"$", "G", "i", "v", "e", "K", "a", "k", "e", "r", "a", " ", "<", "@", "!", "1", ">", " ", "1", "0", "0", "0">>
\* $kakeraremove <@1> 100
KakeraRemove100 == <<"$", "k", "a", "k", "e", "r", "a", "r", "e", "m", "o", "v", "e", " ", "<", "@", "1", ">", " ", "1", "0", "0">>
\* $takekakera <@1> 1000
TakeKakera1000 == <<"$", "t", "a", "k", "e", "k", "a", "k", "e", "r", "a", " ", "<", "@", "1", ">", " ", "1", "0", "0", "0">>
\* $givescrap <@1> 100 #exempt
GiveExempt == <<"$", "g", "i", "v", "e", "s", "c", "r", "a", "p", " ", "<", "@", "1", ">", " ", "1", "0", "0", " ", "#", "e", "x", "e", "m", "p", "t">>
\* $givescrap <@1> 100 #EXEMPT
GiveExemptUpper == <<"$", "g", "i", "v", "e", "s", "c", "r", "a", "p", " ", "<", "@", "1", ">", " ", "1", "0", "0", " ", "#", "E", "X", "E", "M", "P", "T">>
\* givescrap <@1> 100
GiveNoSigil == <<"g", "i", "v", "e", "s", "c", "r", "a", "p", " ", "<", "@", "1", ">", " ", "1", "0", "0">>
\* $givescrap 100 <@1>
GiveWrongOrder == <<"$", "g", "i", "v", "e", "s", "c", "r", "a", "p", " ", "1", "0", "0", " ", "<", "@", "1", ">">>
\* $givescrap <@1> 0
GiveScrapZero == <<"$", "g", "i", "v", "e", "s", "c", "r", "a", "p", " ", "<", "@", "1", ">", " ", "0">>
\* $givescrap\r<@1> 100   (a carriage return for the first blank)
GiveScrapReturn == <<"$", "g", "i", "v", "e", "s", "c", "r", "a", "p", "\r", "<", "@", "1", ">", " ", "1", "0", "0">>
\* **100**\nremoved (added to $)   (a line break after the amount)
MudaeRemovedBreak == <<"*", "*", "1", "0", "0", "*", "*", "\n", "r", "e", "m", "o", "v", "e", "d", " ", "(", "a", "d", "d", "e", "d", " ", "t", "o", " ", "$", ")">>
\* **100** removed (added to $)
MudaeRemoved100 == <<"*", "*", "1", "0", "0", "*", "*", " ", "r", "e", "m", "o", "v", "e", "d", " ", "(", "a", "d", "d", "e", "d", " ", "t", "o", " ", "$", ")">>
\* **1000** removed (added to $)
MudaeRemoved1000 == <<"*", "*", "1", "0", "0", "0", "*", "*", " ", "r", "e", "m", "o", "v", "e", "d", " ", "(", "a", "d", "d", "e", "d", " ", "t", "o", " ", "$", ")">>
\* **100** will be removed... Do you confirm?
MudaeAsk100 == <<"*", "*", "1", "0", "0", "*", "*", " ", "w", "i", "l", "l", " ", "b", "e", " ", "r", "e", "m", "o", "v", "e", "d", ".", ".", ".", " ", "D", "o", " ", "y", "o", "u", " ", "c", "o", "n", "f", "i", "r", "m", "?">>
\* **100** kakera
MudaeNoKeyword == <<"*", "*", "1", "0", "0", "*", "*", " ", "k", "a", "k", "e", "r", "a">>

\* message.content of the messages delivered
Contents == {GiveScrap100, GiveKakera1000, KakeraRemove100, TakeKakera1000,
             GiveExempt, GiveExemptUpper, GiveNoSigil, GiveWrongOrder,
             GiveScrapZero, GiveScrapReturn,
             MudaeRemoved100, MudaeRemoved1000, MudaeAsk100, MudaeNoKeyword,
             MudaeRemovedBreak}

\* message.channel.id
Channels == {1}
\* reaction.emoji.name
Emojis == {CHECKMARK, "white_check_mark", "x"}
\* the mode option of /debt_toggle
Modes == {"on", "off"}
\* the amount option of /debt_add
AddAmounts == {100, -100}
\* the user option of /debt_add
AddUsers == {<<"1">>}

-----------------------------------------------------------------------------
(* Maps *)

EmptyMap == [k \in {} |-> 0]
\* Map.prototype.has
MapHas(m, k) == k \in DOMAIN m
\* C5, mutant: a set that keeps the value a key already has
MapSet_KeepsFirst(m, k, v) ==
    [x \in (DOMAIN m) \cup {k} |-> IF x \in DOMAIN m THEN m[x] ELSE v]
\* Map.prototype.set: one value per key, the last one written
MapSet(m, k, v) == [x \in (DOMAIN m) \cup {k} |-> IF x = k THEN v ELSE m[x]]
\* Map.prototype.delete
MapDelete(m, k) == [x \in (DOMAIN m) \ {k} |-> m[x]]

\* the value of a pending map: type is written out in index.js and is the
\* map's in the other builds; ref stands for the identity of the JavaScript
\* object (the id of the message that created it)
NoAction == [type |-> "NONE", adminId |-> "", userId |-> <<>>, amount |-> 0,
             timestamp |-> 0, ref |-> 0]

-----------------------------------------------------------------------------
(* Rows of table debts and the arithmetic of applyInterest *)

WeekMs == DaysPerWeek * DayMs
\* the clock at start-up
StartMs == WeekMs

\* C11, mutant: a row inserted with nothing left to pay
NewDebt_NothingOwed(id, borrowerId, adminId, amount, at) ==
    [id |-> id, borrower_id |-> borrowerId, admin_id |-> adminId,
     amount_initial |-> amount, amount_remaining |-> 0,
     created_at |-> at, last_interest_at |-> at, status |-> "open"]

\* the row logDebt inserts
NewDebt(id, borrowerId, adminId, amount, at) ==
    [id |-> id, borrower_id |-> borrowerId, admin_id |-> adminId,
     amount_initial |-> amount, amount_remaining |-> amount,
     created_at |-> at, last_interest_at |-> at, status |-> "open"]

\* the table at start-up: empty, or holding a debt of an earlier run
InitialLedgers == { {}, {NewDebt(1, <<"1">>, "admin", 1000, 0)} }

Abs(x) == IF x < 0 THEN 0 - x ELSE x

\* C12, mutant: interest rounded down
CeilInterest_Floor(x) == (21 * x) \div 20

\* Math.ceil(newAmount * 1.05): the product of an integer below 2^53 / 21 and
\* the double 1.05 rounds to the exact 21 x / 20 when that is an integer and
\* stays strictly between its neighbours otherwise
CeilInterest(x) == IF x >= 0 THEN (21 * x + 19) \div 20 ELSE 0 - ((21 * (0 - x)) \div 20)

RECURSIVE Compound(_, _)
\* for (let i = 0; i < weeksPassed; i++) newAmount = Math.ceil(newAmount * 1.05)
Compound(amount, weeks) ==
    IF weeks <= 0 THEN amount ELSE Compound(CeilInterest(amount), weeks - 1)

\* C13, mutant: a week counted as soon as it has begun
WeeksPassed_Begun(row, t) ==
    LET diffTime == Abs(t - row.last_interest_at)
        diffDays == diffTime \div DayMs
    IN  (diffDays + DaysPerWeek - 1) \div DaysPerWeek

\* weeksPassed of a row at time t
WeeksPassed(row, t) ==
    LET diffTime == Abs(t - row.last_interest_at)
        diffDays == diffTime \div DayMs
    IN  diffDays \div DaysPerWeek

\* C14, mutant: last_interest_at moved to the time of the pass
Accrued_ToNow(row, t) ==
    [row EXCEPT !.amount_remaining = Compound(row.amount_remaining, WeeksPassed(row, t)),
                !.last_interest_at = t]

\* the row as the UPDATE of applyInterest rewrites it
Accrued(row, t) ==
    [row EXCEPT !.amount_remaining = Compound(row.amount_remaining, WeeksPassed(row, t)),
                !.last_interest_at = row.last_interest_at + WeeksPassed(row, t) * WeekMs]

\* the orders in which the database may return the rows of S: every
\* arrangement of them (a heap has no order of its own, and an UPDATE moves
\* the row it rewrites)
Orders(S) ==
    LET n == Cardinality(S)
    IN  {s \in [1..n -> S] : \A i, j \in 1..n : i < j => s[i] # s[j]}

\* SELECT * FROM debts WHERE status='open': the statement has no ORDER BY
OpenDebts == Orders({r \in debts : r.status = "open"})

\* C17, mutant: the borrower's open debts with the newest first
OpenDebtsOf_NewestFirst(borrowerId) ==
    {s \in Orders({r \in debts : r.status = "open" /\ r.borrower_id = borrowerId}) :
        \A i, j \in 1..Len(s) : i < j => s[i].created_at >= s[j].created_at}

\* SELECT * FROM debts WHERE borrower_id=$1 AND status='open' ORDER BY created_at ASC
\* (rows of one created_at in any order)
OpenDebtsOf(borrowerId) ==
    {s \in Orders({r \in debts : r.status = "open" /\ r.borrower_id = borrowerId}) :
        \A i, j \in 1..Len(s) : i < j => s[i].created_at <= s[j].created_at}


-----------------------------------------------------------------------------
(* Handlers suspended at an await.  A handler runs without interruption from *)
(* one await to the next; every statement sent to the database is one step.  *)

\* kind: "reaction"  messageReactionAdd           "mudae"   messageCreate of Mudae
\*       "timer"     setInterval(applyInterest)   "status"  /debt_status
\*       "direct"    messageCreate of part_001b
\*       "ready"     client.once('ready') from its await of applyInterest
\*       "add"       /debt_add
\* pc:   the statement the handler is waiting for ("ai_select" stands for
\*       pool.connect() and the SELECT of applyInterest), or, at "ai_loop",
\*       "log" and "st_report", the code it runs when the await has returned
\* action, key: the pending entry the handler read and the key it deletes
\* rows, at: res.rows still to visit and `now` of the pass under way; in
\*       logDebt, at is its `now`, read when pool.connect() has returned
\* remaining, logs: the locals of payDebt
\* read: res.rows of payDebt's SELECT
\* accrued, acted: history of the run: applyInterest returned, the ledger
\*       action's first statement ran
\* C10, mutant: a confirmation handler that goes to the ledger action at once
Task_SkipsInterest(kind, action, key) ==
    [kind |-> kind,
     pc |-> IF action.type = "LOAN" THEN "log"
            ELSE IF action.type = "REPAY" THEN "pay_select" ELSE "ai_select",
     action |-> action, key |-> key,
     rows |-> <<>>, at |-> 0, remaining |-> 0, logs |-> <<>>, read |-> <<>>,
     accrued |-> FALSE, acted |-> FALSE]
Task(kind, action, key) ==
    [kind |-> kind, pc |-> "ai_select", action |-> action, key |-> key,
     rows |-> <<>>, at |-> 0, remaining |-> 0, logs |-> <<>>, read |-> <<>>,
     accrued |-> FALSE, acted |-> FALSE]

Running == BagToSet(tasks)
CanStart == BagCardinality(tasks) < MaxTasks
Start(t) == tasks (+) SetToBag({t})
Replace(t, u) == (tasks (-) SetToBag({t})) (+) SetToBag({u})
Stop(t) == tasks (-) SetToBag({t})

Pending == <<pendingActions, pendingLoans, pendingRepayments>>

-----------------------------------------------------------------------------
(* LISTENER 1: the proposal *)

NoProposal == [type |-> "NONE", userId |-> <<>>, amount |-> 0]

\* message.content.toLowerCase().includes('#exempt') in index.js and part_001b,
\* message.content.includes('#exempt') in part_000 and part_001a
IsExempt(v, content) ==
    IF v \in {"index", "part_001b"}
    THEN Includes(ToLowerCase(content), ExemptMarker)
    ELSE Includes(content, ExemptMarker)

\* C8, mutant: a listener that does not look the author up in ADMIN_IDS
Proposal_AnyAuthor(v, tracking, author, content) ==
    LET giveMatch == giveRegex(content)
        takeMatch == takeRegex(content)
    IN  IF author.bot THEN NoProposal
        ELSE IF v # "part_001b" /\ ~tracking THEN NoProposal
        ELSE IF IsExempt(v, content) THEN NoProposal
        ELSE IF giveMatch.ok
             THEN [type |-> "LOAN", userId |-> giveMatch.user,
                   amount |-> ParseInt(giveMatch.amount)]
        ELSE IF takeMatch.ok
             THEN [type |-> "REPAY", userId |-> takeMatch.user,
                   amount |-> ParseInt(takeMatch.amount)]
        ELSE NoProposal

\* what the messageCreate listener of build v makes of a message: the kind,
\* subject and amount of the action it proposes, or NoProposal
Proposal(v, tracking, author, content) ==
    LET giveMatch == giveRegex(content)
        takeMatch == takeRegex(content)
    IN  IF author.bot THEN NoProposal
        ELSE IF author.id \notin ADMIN_IDS THEN NoProposal
        ELSE IF v # "part_001b" /\ ~tracking THEN NoProposal
        ELSE IF IsExempt(v, content) THEN NoProposal
        ELSE IF giveMatch.ok
             THEN [type |-> "LOAN", userId |-> giveMatch.user,
                   amount |-> ParseInt(giveMatch.amount)]
        ELSE IF takeMatch.ok
             THEN [type |-> "REPAY", userId |-> takeMatch.user,
                   amount |-> ParseInt(takeMatch.amount)]
        ELSE NoProposal

\* Proposal on the messages delivered, held as a table
Proposals ==
    [q \in Variants \X BOOLEAN \X Users \X Contents |->
        Proposal(q[1], q[2], q[3], q[4])]

\* the object the listener stores
NewEntry(p, author, id) ==
    [type |-> p.type, adminId |-> author.id, userId |-> p.userId,
     amount |-> p.amount, timestamp |-> now, ref |-> id]

\* client.on('messageCreate') of an administrator's message in the builds that
\* keep pending entries: pendingActions.set / pendingLoans.set /
\* pendingRepayments.set, and nothing else
AdminMessage(author, content, channel) ==
    LET p == Proposals[<<variant, isTrackingEnabled, author, content>>]
        e == NewEntry(p, author, nextMsgId)
    IN  /\ variant \in Correlating
        /\ p.type # "NONE" => nextMsgId <= MaxMsgs
        /\ nextMsgId' = IF p.type = "NONE" THEN nextMsgId ELSE nextMsgId + 1
        /\ pendingActions' =
              IF p.type # "NONE" /\ variant = "index"
              THEN MapSet(pendingActions, nextMsgId, e) ELSE pendingActions
        /\ pendingLoans' =
              IF p.type = "LOAN" /\ variant \in ChannelKeyed
              THEN MapSet(pendingLoans, nextMsgId, e) ELSE pendingLoans
        /\ pendingRepayments' =
              IF p.type = "REPAY" /\ variant \in ChannelKeyed
              THEN MapSet(pendingRepayments, channel, e) ELSE pendingRepayments
        /\ UNCHANGED <<variant, timers, cutShort, uncaught, rejected, isTrackingEnabled, debts, nextId, now, tasks, applied>>

\* client.on('messageCreate') of part_001b: the handler goes on to
\* applyInterest and logDebt / payDebt itself
DirectMessage(author, content) ==
    LET p == Proposals[<<variant, isTrackingEnabled, author, content>>]
        e == NewEntry(p, author, nextMsgId)
    IN  /\ variant = "part_001b"
        /\ p.type # "NONE" => (nextMsgId <= MaxMsgs /\ CanStart)
        /\ nextMsgId' = IF p.type = "NONE" THEN nextMsgId ELSE nextMsgId + 1
        /\ tasks' = IF p.type = "NONE" THEN tasks ELSE Start(Task("direct", e, nextMsgId))
        /\ UNCHANGED <<variant, timers, cutShort, uncaught, rejected, isTrackingEnabled, pendingActions, pendingLoans,
                       pendingRepayments, debts, nextId, now, applied>>


-----------------------------------------------------------------------------
(* LISTENERS 2 and 3: the verification *)

\* part_000: match, and parseInt(match[1].replace(/,/g, '')) === pending.amount
ConfirmsStrict(content, amount) ==
    LET match == mudaeRegex(content)
    IN  /\ match # <<>>
        /\ ParseInt(RemoveCommas(match)) = amount

\* part_001a: hasAmount && hasKeyword
ConfirmsLoose(content, amount) ==
    LET lower      == ToLowerCase(content)
        hasAmount  == Includes(lower, toString(amount))
        hasKeyword == Includes(lower, RemovedWord)
    IN  hasAmount /\ hasKeyword

\* whether the messageCreate listener for Mudae's messages of build v goes on
\* to the repayment, given pending.amount of the entry pendingRepayments holds
\* for the channel
MudaeConfirms(v, tracking, author, content, amount) ==
    /\ author.id = MUDAE_ID
    /\ v = "part_000" => tracking
    /\ IF v = "part_000" THEN ConfirmsStrict(content, amount)
                         ELSE ConfirmsLoose(content, amount)

\* the amounts a pending entry can hold: those of the messages delivered
Amounts ==
    {ParseInt(giveRegex(c).amount) : c \in {x \in Contents : giveRegex(x).ok}}
    \cup {ParseInt(takeRegex(c).amount) : c \in {x \in Contents : takeRegex(x).ok}}

\* MudaeConfirms on the messages delivered, held as a table
Confirmations ==
    {q \in Variants \X BOOLEAN \X Users \X Contents \X Amounts :
        MudaeConfirms(q[1], q[2], q[3], q[4], q[5])}

\* client.on('messageCreate'), the listener for Mudae's messages, up to its
\* first await.  Both messageCreate listeners see every message: this one
\* returns at once unless Mudae wrote it, the other one whenever a bot did.
MudaeMessage(author, content, channel) ==
    LET hit == /\ MapHas(pendingRepayments, channel)
               /\ <<variant, isTrackingEnabled, author, content,
                    pendingRepayments[channel].amount>> \in Confirmations
    IN  /\ variant \in ChannelKeyed
        /\ hit => CanStart
        /\ tasks' = IF hit THEN Start(Task("mudae", pendingRepayments[channel], channel))
                           ELSE tasks
        /\ UNCHANGED <<variant, timers, cutShort, uncaught, rejected, isTrackingEnabled, pendingActions, pendingLoans,
                       pendingRepayments, debts, nextId, now, nextMsgId, applied>>

\* C9, mutant: a listener that takes the checkmark of any user
ReactionPasses_AnyUser(tracking, user, emoji) ==
    /\ emoji = CHECKMARK \/ emoji = "white_check_mark"
    /\ tracking

\* the filters of the messageReactionAdd listener before it reads the map
ReactionPasses(tracking, user, emoji) ==
    /\ user.id = MUDAE_ID
    /\ emoji = CHECKMARK \/ emoji = "white_check_mark"
    /\ tracking

\* the map the messageReactionAdd listener reads and deletes from
ReactionMap == IF variant = "index" THEN pendingActions ELSE pendingLoans

\* client.on('messageReactionAdd') up to the await of applyInterest.  A partial
\* reaction is fetched first; the handler reads nothing before the fetch
\* returns, so the event is taken at that moment, and a failed fetch returns.
ReactionAdd(user, emoji, msg, partial, fetched) ==
    LET hit == /\ partial => fetched
               /\ ReactionPasses(isTrackingEnabled, user, emoji)
               /\ MapHas(ReactionMap, msg)
    IN  /\ variant \in Correlating
        /\ hit => CanStart
        /\ tasks' = IF hit THEN Start(Task("reaction", ReactionMap[msg], msg)) ELSE tasks
        /\ UNCHANGED <<variant, timers, cutShort, uncaught, rejected, isTrackingEnabled, pendingActions, pendingLoans,
                       pendingRepayments, debts, nextId, now, nextMsgId, applied>>

-----------------------------------------------------------------------------
(* applyInterest, logDebt, payDebt: one step per statement *)

\* where a handler goes when applyInterest has returned
AfterInterest(t) ==
    CASE t.kind \in {"timer", "ready"} -> "done"
      [] t.kind = "status" -> "st_select"
      [] t.action.type = "LOAN" -> "log"
      [] t.action.type = "REPAY" -> "pay_select"
      [] OTHER -> "finish"

\* the handler t with applyInterest returned
Accrue(t) == [t EXCEPT !.pc = AfterInterest(t), !.rows = <<>>, !.accrued = TRUE]

\* the tasks with t moved on to u, or ended
Move(t, u) == IF u.pc = "done" THEN Stop(t) ELSE Replace(t, u)

\* await applyInterest(); setInterval(applyInterest, ...); setInterval(() =>
\* { ... }, 60000): the timers exist once the pass at start-up has returned
Installed(t, u) == timers \/ (t.kind = "ready" /\ u.pc = "done")

\* applyInterest: pool.connect() and the SELECT, which gives res.rows
InterestSelect(t) ==
    /\ t.pc = "ai_select"
    /\ \E rows \in OpenDebts :
          tasks' = Replace(t, [t EXCEPT !.pc = "ai_loop", !.rows = rows])
    /\ UNCHANGED <<variant, timers, cutShort, uncaught, rejected, isTrackingEnabled, pendingActions,
                   pendingLoans, pendingRepayments, debts, nextId, now, nextMsgId, applied>>

\* applyInterest when the SELECT has returned: const now = new Date(), and
\* the loop up to the first UPDATE (rows with weeksPassed = 0 are passed over
\* without an await)
InterestLoop(t) ==
    LET due == SelectSeq(t.rows, LAMBDA r : WeeksPassed(r, now) > 0)
        u   == IF due = <<>> THEN Accrue(t)
               ELSE [t EXCEPT !.pc = "ai_update", !.rows = due, !.at = now]
    IN  /\ t.pc = "ai_loop"
        /\ tasks' = Move(t, u)
        /\ timers' = Installed(t, u)
        /\ UNCHANGED <<variant, cutShort, uncaught, rejected, isTrackingEnabled, pendingActions,
                       pendingLoans, pendingRepayments, debts, nextId, now, nextMsgId, applied>>

\* UPDATE debts SET amount_remaining=$1, last_interest_at=$2 WHERE id=$3
\* with the values computed from the row as it was read
InterestUpdate(t) ==
    LET debt == Head(t.rows)
        new  == Accrued(debt, t.at)
        rest == Tail(t.rows)
        u    == IF rest = <<>> THEN Accrue(t) ELSE [t EXCEPT !.rows = rest]
    IN  /\ t.pc = "ai_update"
        /\ debts' = {IF r.id = debt.id
                     THEN [r EXCEPT !.amount_remaining = new.amount_remaining,
                                    !.last_interest_at = new.last_interest_at]
                     ELSE r : r \in debts}
        /\ tasks' = Move(t, u)
        /\ timers' = Installed(t, u)
        /\ UNCHANGED <<variant, cutShort, uncaught, rejected, isTrackingEnabled, pendingActions, pendingLoans,
                       pendingRepayments, nextId, now, nextMsgId, applied>>

\* the history of ledger actions with one more for the entry of t
Count(t) ==
    IF t.action.ref \in DOMAIN applied
    THEN [applied EXCEPT ![t.action.ref] = IF @ < MaxTasks THEN @ + 1 ELSE @]
    ELSE applied

\* logDebt up to its INSERT: pool.connect() has returned, and
\* const now = new Date().toISOString() is read before the statement is sent
LogConnect(t) ==
    /\ t.pc = "log"
    /\ tasks' = Replace(t, [t EXCEPT !.pc = "log_insert", !.at = now])
    /\ UNCHANGED <<variant, timers, cutShort, uncaught, rejected, isTrackingEnabled, pendingActions,
                   pendingLoans, pendingRepayments, debts, nextId, now, nextMsgId, applied>>

\* logDebt(action.userId, action.adminId, action.amount, ...): the INSERT,
\* with created_at and last_interest_at the `now` read before it
LogDebt(t) ==
    /\ t.pc = "log_insert"
    /\ nextId <= MaxDebts
    /\ debts' = debts \cup {NewDebt(nextId, t.action.userId, t.action.adminId,
                                    t.action.amount, t.at)}
    /\ nextId' = nextId + 1
    /\ applied' = Count(t)
    /\ tasks' = Replace(t, [t EXCEPT !.pc = "finish", !.acted = TRUE])
    /\ UNCHANGED <<variant, timers, cutShort, uncaught, rejected, isTrackingEnabled, pendingActions, pendingLoans,
                   pendingRepayments, now, nextMsgId>>

\* payDebt(action.userId, action.amount): the SELECT, let remaining = amount,
\* and the loop up to the first UPDATE
PaySelect(t) ==
    /\ t.pc = "pay_select"
    /\ applied' = Count(t)
    /\ \E rows \in OpenDebtsOf(t.action.userId) :
          LET more == rows # <<>> /\ t.action.amount > 0
          IN  tasks' = Replace(t, [t EXCEPT !.pc = IF more THEN "pay_update" ELSE "finish",
                                            !.rows = IF more THEN rows ELSE <<>>,
                                            !.remaining = t.action.amount,
                                            !.logs = <<>>,
                                            !.read = rows,
                                            !.acted = TRUE])
    /\ UNCHANGED <<variant, timers, cutShort, uncaught, rejected, isTrackingEnabled, pendingActions, pendingLoans,
                   pendingRepayments, debts, nextId, now, nextMsgId>>

\* C18, mutant: an UPDATE that always subtracts the whole payment
Paid_TakesAll(r, debt, remaining) ==
    [r EXCEPT !.amount_remaining = debt.amount_remaining - remaining,
              !.status = IF remaining >= debt.amount_remaining THEN "paid" ELSE "open"]

\* C21, mutant: a partial payment that writes status 'open' with the balance
Paid_Reopens(r, debt, remaining) ==
    IF remaining >= debt.amount_remaining
    THEN [r EXCEPT !.amount_remaining = 0, !.status = "paid"]
    ELSE [r EXCEPT !.amount_remaining = debt.amount_remaining - remaining,
                   !.status = "open"]

\* the row of the table that payDebt's UPDATE ... WHERE id = debt.id leaves,
\* from the row as it was read and the local `remaining`
Paid(r, debt, remaining) ==
    IF remaining >= debt.amount_remaining
    THEN [r EXCEPT !.amount_remaining = 0, !.status = "paid"]
    ELSE [r EXCEPT !.amount_remaining = debt.amount_remaining - remaining]

\* logs.push(...): the debt, whether it was paid fully or reduced, and the
\* two amounts the line shows
PayLog(debt, remaining) ==
    IF remaining >= debt.amount_remaining
    THEN [id |-> debt.id, paid |-> TRUE, by |-> debt.amount_remaining, left |-> 0]
    ELSE [id |-> debt.id, paid |-> FALSE, by |-> remaining,
          left |-> debt.amount_remaining - remaining]

\* one turn of payDebt's loop: the UPDATE, and the loop up to the next one
PayUpdate(t) ==
    LET debt == Head(t.rows)
        left == IF t.remaining >= debt.amount_remaining
                THEN t.remaining - debt.amount_remaining ELSE 0
        rest == Tail(t.rows)
        more == rest # <<>> /\ left > 0
    IN  /\ t.pc = "pay_update"
        /\ debts' = {IF r.id = debt.id THEN Paid(r, debt, t.remaining) ELSE r : r \in debts}
        /\ tasks' = Replace(t, [t EXCEPT !.pc = IF more THEN "pay_update" ELSE "finish",
                                         !.rows = IF more THEN rest ELSE <<>>,
                                         !.remaining = left,
                                         !.logs = Append(@, PayLog(debt, t.remaining))])
        /\ UNCHANGED <<variant, timers, cutShort, uncaught, rejected, isTrackingEnabled, pendingActions, pendingLoans,
                       pendingRepayments, nextId, now, nextMsgId, applied>>

\* C2, mutant: a handler that ends without deleting its entry
Finish_KeepsEntry(t) ==
    /\ t.pc = "finish"
    /\ tasks' = Stop(t)
    /\ UNCHANGED <<variant, timers, cutShort, uncaught, rejected, isTrackingEnabled, pendingActions, pendingLoans,
                   pendingRepayments, debts, nextId, now, nextMsgId, applied>>

\* the end of a confirmation handler: the reply has been sent, then
\* pendingActions.delete(reaction.message.id) / pendingLoans.delete(...) /
\* pendingRepayments.delete(message.channel.id); part_001b and /debt_add have
\* nothing to delete
Finish(t) ==
    /\ t.pc = "finish"
    /\ pendingActions' =
          IF variant = "index" /\ t.kind = "reaction"
          THEN MapDelete(pendingActions, t.key) ELSE pendingActions
    /\ pendingLoans' =
          IF variant \in ChannelKeyed /\ t.kind = "reaction"
          THEN MapDelete(pendingLoans, t.key) ELSE pendingLoans
    /\ pendingRepayments' =
          IF variant \in ChannelKeyed /\ t.kind = "mudae"
          THEN MapDelete(pendingRepayments, t.key) ELSE pendingRepayments
    /\ tasks' = Stop(t)
    /\ UNCHANGED <<variant, timers, cutShort, uncaught, rejected, isTrackingEnabled, debts, nextId, now, nextMsgId, applied>>

\* whether text a sorts before text b: ORDER BY on a VARCHAR of digits
RECURSIVE TextBefore(_, _)
TextBefore(a, b) ==
    IF b = <<>> THEN FALSE
    ELSE IF a = <<>> THEN TRUE
    ELSE IF Head(a) = Head(b) THEN TextBefore(Tail(a), Tail(b))
    ELSE DigitValue(Head(a)) < DigitValue(Head(b))

\* SELECT * FROM debts WHERE status='open' ORDER BY borrower_id: the orders
\* the database may return the rows in (rows of one borrower in any order)
StatusRows ==
    LET open == {r \in debts : r.status = "open"}
        n    == Cardinality(open)
    IN  {s \in [1..n -> open] :
            /\ \A i, j \in 1..n : i < j => s[i] # s[j]
            /\ \A i, j \in 1..n : i < j => ~TextBefore(s[j].borrower_id, s[i].borrower_id)}

\* Math.ceil(x / d)
CeilDiv(x, d) == 0 - ((0 - x) \div d)

\* next = last + 7 days; daysUntil = Math.ceil((next - new Date()) / day)
DaysUntil(row, t) == CeilDiv(row.last_interest_at + DaysPerWeek * DayMs - t, DayMs)

\* /debt_status after applyInterest: pool.connect() and
\* SELECT ... ORDER BY borrower_id
StatusSelect(t) ==
    /\ t.pc = "st_select"
    /\ \E rows \in StatusRows :
          tasks' = Replace(t, [t EXCEPT !.pc = "st_report", !.rows = rows, !.acted = TRUE])
    /\ UNCHANGED <<variant, timers, cutShort, uncaught, rejected, isTrackingEnabled, pendingActions, pendingLoans,
                   pendingRepayments, debts, nextId, now, nextMsgId, applied>>

\* /debt_status when the SELECT has returned: the report is built from
\* res.rows at new Date(), and the reply is awaited
StatusReport(t) ==
    /\ t.pc = "st_report"
    /\ tasks' = Replace(t, [t EXCEPT !.pc = "st_reply", !.at = now])
    /\ UNCHANGED <<variant, timers, cutShort, uncaught, rejected, isTrackingEnabled, pendingActions, pendingLoans,
                   pendingRepayments, debts, nextId, now, nextMsgId, applied>>

\* interaction.reply(report) has been sent
StatusReply(t) ==
    /\ t.pc = "st_reply"
    /\ tasks' = Stop(t)
    /\ UNCHANGED <<variant, timers, cutShort, uncaught, rejected, isTrackingEnabled, pendingActions, pendingLoans,
                   pendingRepayments, debts, nextId, now, nextMsgId, applied>>

\* the handlers whose storage calls and reply are inside
\* try { } catch { } finally { }
Catches(t) == t.kind = "reaction" \/ (t.kind = "mudae" /\ variant = "part_001a")

\* C28, mutant: a failed UPDATE that has written the new amount_remaining
\* and not the new last_interest_at
InterestFails_HalfWritten(t) ==
    /\ t.pc \in {"ai_select", "ai_update"}
    /\ tasks' = Move(t, Accrue(t))
    /\ timers' = Installed(t, Accrue(t))
    /\ cutShort' = (cutShort \/ t.pc = "ai_update")
    /\ debts' = IF t.pc = "ai_update"
                THEN {IF r.id = Head(t.rows).id
                      THEN [r EXCEPT !.amount_remaining =
                                        Accrued(Head(t.rows), t.at).amount_remaining]
                      ELSE r : r \in debts}
                ELSE debts
    /\ UNCHANGED <<variant, uncaught, rejected, isTrackingEnabled, pendingActions, pendingLoans,
                   pendingRepayments, nextId, now, nextMsgId, applied>>

\* a query of applyInterest throws: catch (err) { console.error(...) }, and
\* applyInterest returns to its caller; the UPDATE that threw wrote nothing
\* and the rows after it are not visited
InterestFails(t) ==
    /\ t.pc \in {"ai_select", "ai_update"}
    /\ tasks' = Move(t, Accrue(t))
    /\ timers' = Installed(t, Accrue(t))
    /\ cutShort' = (cutShort \/ t.pc = "ai_update")
    /\ UNCHANGED <<variant, uncaught, rejected, isTrackingEnabled, pendingActions, pendingLoans,
                   pendingRepayments, debts, nextId, now, nextMsgId, applied>>

\* pool.connect() of applyInterest, or pool.connect() or a query of logDebt,
\* payDebt or /debt_status throws, or the reply the handler awaits at its end
\* is rejected: the error reaches the handler, which catches it and runs its
\* finally, or does not.  When the pass at start-up throws the ready handler
\* ends before its setInterval calls.
Throws(t) ==
    /\ t.pc \in {"ai_select", "log", "log_insert", "pay_select", "pay_update", "st_select",
                 "st_reply", "finish"}
    /\ uncaught' = (uncaught \/ ~Catches(t))
    /\ pendingActions' =
          IF Catches(t) /\ variant = "index"
          THEN MapDelete(pendingActions, t.key) ELSE pendingActions
    /\ pendingLoans' =
          IF Catches(t) /\ variant \in ChannelKeyed /\ t.kind = "reaction"
          THEN MapDelete(pendingLoans, t.key) ELSE pendingLoans
    /\ pendingRepayments' =
          IF Catches(t) /\ t.kind = "mudae"
          THEN MapDelete(pendingRepayments, t.key) ELSE pendingRepayments
    /\ tasks' = Stop(t)
    /\ UNCHANGED <<variant, timers, cutShort, rejected, isTrackingEnabled, debts, nextId, now, nextMsgId, applied>>

-----------------------------------------------------------------------------
(* Timers and slash commands *)

\* setInterval(applyInterest, 1000 * 60 * 60)
TimerFires ==
    /\ timers
    /\ CanStart
    /\ tasks' = Start(Task("timer", NoAction, 0))
    /\ UNCHANGED <<variant, timers, cutShort, uncaught, rejected, isTrackingEnabled, pendingActions, pendingLoans,
                   pendingRepayments, debts, nextId, now, nextMsgId, applied>>

\* C6, mutant: a cleanup that also drops the entries exactly RetentionMs old
Sweep_Inclusive(m) ==
    [k \in {x \in DOMAIN m : ~(now - m[x].timestamp >= RetentionMs)} |-> m[k]]
\* what the cleanup leaves of a map
Sweep(m) == [k \in {x \in DOMAIN m : ~(now - m[x].timestamp > RetentionMs)} |-> m[k]]

\* C29, mutant: a cleanup that sweeps the loans and not the repayments
Cleanup_LoansOnly ==
    /\ variant \in Correlating
    /\ timers
    /\ pendingActions' = Sweep(pendingActions)
    /\ pendingLoans' = Sweep(pendingLoans)
    /\ UNCHANGED <<variant, timers, cutShort, uncaught, rejected, isTrackingEnabled, pendingRepayments,
                   debts, nextId, now, nextMsgId, tasks, applied>>

\* setInterval(() => { ... }, 60000): the cleanup of old pending entries
Cleanup ==
    /\ variant \in Correlating
    /\ timers
    /\ pendingActions' = Sweep(pendingActions)
    /\ pendingLoans' = Sweep(pendingLoans)
    /\ pendingRepayments' = Sweep(pendingRepayments)
    /\ UNCHANGED <<variant, timers, cutShort, uncaught, rejected, isTrackingEnabled, debts, nextId, now, nextMsgId, tasks, applied>>

\* C25, mutant: a gate that lets every user in
Authorized_Anyone(user) == user.id = user.id

\* if (!ADMIN_IDS.includes(interaction.user.id)) return interaction.reply(...)
Authorized(user) == user.id \in ADMIN_IDS

\* /debt_toggle: isTrackingEnabled = (mode === 'on')
DebtToggle(user, mode) ==
    /\ variant \in Correlating
    /\ isTrackingEnabled' = IF Authorized(user) THEN (mode = "on") ELSE isTrackingEnabled
    /\ rejected' = (rejected \/ ~Authorized(user))
    /\ UNCHANGED <<variant, timers, cutShort, uncaught, pendingActions, pendingLoans, pendingRepayments, debts,
                   nextId, now, nextMsgId, tasks, applied>>

\* /debt_status up to the await of applyInterest
DebtStatus(user) ==
    /\ Authorized(user) => CanStart
    /\ tasks' = IF Authorized(user) THEN Start(Task("status", NoAction, 0)) ELSE tasks
    /\ rejected' = (rejected \/ ~Authorized(user))
    /\ UNCHANGED <<variant, timers, cutShort, uncaught, isTrackingEnabled, pendingActions, pendingLoans,
                   pendingRepayments, debts, nextId, now, nextMsgId, applied>>

\* the arguments /debt_add passes to logDebt, in the shape of a pending entry
AddAction(user, borrower, amount) ==
    [type |-> "LOAN", adminId |-> user.id, userId |-> borrower, amount |-> amount,
     timestamp |-> 0, ref |-> 0]

\* /debt_add up to the await of pool.connect() in
\* logDebt(user.id, interaction.user.id, amount, note); applyInterest is not
\* called
DebtAdd(user, borrower, amount) ==
    /\ Authorized(user) => (CanStart /\ nextId <= MaxDebts)
    /\ tasks' = IF Authorized(user)
                THEN Start([Task("add", AddAction(user, borrower, amount), 0)
                               EXCEPT !.pc = "log"])
                ELSE tasks
    /\ rejected' = (rejected \/ ~Authorized(user))
    /\ UNCHANGED <<variant, timers, cutShort, uncaught, isTrackingEnabled, pendingActions, pendingLoans,
                   pendingRepayments, debts, nextId, now, nextMsgId, applied>>

\* /debt_delete: DELETE FROM debts WHERE id=$1; the handler reads and writes
\* nothing else between its awaits, so the command is the step of its DELETE
DebtDelete(user, id) ==
    /\ debts' = IF Authorized(user) THEN {r \in debts : r.id # id} ELSE debts
    /\ rejected' = (rejected \/ ~Authorized(user))
    /\ UNCHANGED <<variant, timers, cutShort, uncaught, isTrackingEnabled, pendingActions, pendingLoans,
                   pendingRepayments, nextId, now, nextMsgId, tasks, applied>>

\* A promise of the interactionCreate listener is rejected in a turn after
\* the one of its command, where the listener has nothing left to change, and
\* the listener has no catch.  For a user outside ADMIN_IDS it is the reply
\* "Unauthorized" that the gate returned, whatever the command: the reply was
\* sent in the turn of the command (rejected), and other events are handled
\* before its rejection arrives.  For an administrator it is pool.connect(),
\* the DELETE or the reply of /debt_delete, or the reply of /debt_toggle
CommandFails(user) ==
    /\ Authorized(user) \/ rejected
    /\ uncaught' = TRUE
    /\ UNCHANGED <<variant, timers, cutShort, rejected, isTrackingEnabled, pendingActions, pendingLoans,
                   pendingRepayments, debts, nextId, now, nextMsgId, tasks, applied>>

\* time passes
Tick ==
    /\ now < StartMs + MaxTicks * StepMs
    /\ now' = now + StepMs
    /\ UNCHANGED <<variant, timers, cutShort, uncaught, rejected, isTrackingEnabled, pendingActions, pendingLoans,
                   pendingRepayments, debts, nextId, nextMsgId, tasks, applied>>

\* the time between two events of the ledger: half a week, and five days and
\* an hour
Spans == {(DaysPerWeek * DayMs) \div 2, 5 * DayMs + DayMs \div 24}

\* time passes between two events of the ledger
Elapse(d) ==
    /\ d <= StartMs + MaxDays * DayMs - now
    /\ now' = now + d
    /\ UNCHANGED <<variant, timers, cutShort, uncaught, rejected, isTrackingEnabled, pendingActions, pendingLoans,
                   pendingRepayments, debts, nextId, nextMsgId, tasks, applied>>

\* the spans by which the system clock is set back: a week
Rewinds == {DaysPerWeek * DayMs}

\* the system clock is set back (a correction of the host's time): new Date()
\* follows the system clock, which is not monotonic.  To keep the dates
\* bounded the clock is set back when no debt is ahead of it already, and
\* to a time no later than the start-up
Rewind(d) ==
    /\ d <= now
    /\ now - d <= StartMs
    /\ \A r \in debts : r.last_interest_at <= now
    /\ now' = now - d
    /\ UNCHANGED <<variant, timers, cutShort, uncaught, rejected, isTrackingEnabled, pendingActions, pendingLoans,
                   pendingRepayments, debts, nextId, nextMsgId, tasks, applied>>

-----------------------------------------------------------------------------
(* The bot *)

MaxOf(S) == IF S = {} THEN 0 ELSE CHOOSE x \in S : \A y \in S : y <= x

\* the bot when client.once('ready') has run initDB and registered the
\* commands and awaits applyInterest(): the listeners are attached, the table
\* is as the earlier run left it, and the two timers are not installed yet
Init ==
    /\ variant \in Variants
    /\ isTrackingEnabled = TRUE
    /\ pendingActions = EmptyMap
    /\ pendingLoans = EmptyMap
    /\ pendingRepayments = EmptyMap
    /\ debts \in InitialLedgers
    /\ nextId = MaxOf({r.id : r \in debts}) + 1
    /\ now = StartMs
    /\ nextMsgId = 1
    /\ tasks = SetToBag({Task("ready", NoAction, 0)})
    /\ applied = [m \in 1..MaxMsgs |-> 0]
    /\ uncaught = FALSE
    /\ rejected = FALSE
    /\ cutShort = FALSE
    /\ timers = FALSE

\* the ways a partial reaction's fetch can go: <<partial, fetched>>
Fetches == {<<FALSE, TRUE>>, <<TRUE, TRUE>>, <<TRUE, FALSE>>}

\* the messages and reactions delivered, drawn from given sets
Deliver(users, contents, emojis, fetches) ==
    \/ \E a \in users, c \in contents, ch \in Channels : AdminMessage(a, c, ch)
    \/ \E a \in users, c \in contents : DirectMessage(a, c)
    \/ \E a \in users, c \in contents, ch \in Channels : MudaeMessage(a, c, ch)
    \/ \E u \in users, e \in emojis, m \in 1..MaxMsgs, pf \in fetches :
          ReactionAdd(u, e, m, pf[1], pf[2])

\* a confirmation handler (or part_001b's message handler) resumes
Confirm ==
    \/ \E t \in Running : InterestSelect(t)
    \/ \E t \in Running : InterestLoop(t)
    \/ \E t \in Running : InterestUpdate(t)
    \/ \E t \in Running : LogConnect(t)
    \/ \E t \in Running : LogDebt(t)
    \/ \E t \in Running : PaySelect(t)
    \/ \E t \in Running : PayUpdate(t)
    \/ \E t \in Running : Finish(t)

\* An ordinary session: an administrator and Mudae, one message of each kind,
\* the checkmark.  Handlers interleave at their awaits; the clock stands
\* still and nothing but the handlers works on the ledger.
SessionUsers == {Admin, Mudae}
SessionContents == {GiveScrap100, KakeraRemove100, MudaeRemoved100}

Next ==
    \/ Deliver(SessionUsers, SessionContents, {CHECKMARK}, {<<FALSE, TRUE>>})
    \/ Confirm
    \/ \E m \in Modes : DebtToggle(Admin, m)

Spec == Init /\ [][Next]_vars

\* Every user, message and emoji, one event at a time: an event is delivered
\* when no handler is suspended.  The clock stands still.
NextInputs ==
    \/ /\ tasks = EmptyBag
       /\ Deliver(Users, Contents, Emojis, Fetches)
    \/ Confirm
    \/ \E u \in Users, m \in Modes : DebtToggle(u, m)

SpecInputs == Init /\ [][NextInputs]_vars

\* The session with the clock running and the cleanup timer, one event at a
\* time.
NextExpiry ==
    \/ /\ tasks = EmptyBag
       /\ Deliver(SessionUsers, SessionContents, {CHECKMARK}, {<<FALSE, TRUE>>})
    \/ Confirm
    \/ Cleanup
    \/ Tick

SpecExpiry == Init /\ [][NextExpiry]_vars

\* The same session where time goes on and the cleanup timer keeps firing:
\* setInterval runs the cleanup every minute for as long as the process lives.
SpecSweep == SpecExpiry /\ WF_vars(Tick) /\ WF_vars(Cleanup)

\* The session with the clock and the cleanup timer where a handler runs to
\* its end before the clock is read again: the time of every step of a
\* handler is the time its confirmation arrived.
NextLate ==
    \/ /\ tasks = EmptyBag
       /\ Deliver(SessionUsers, SessionContents, {CHECKMARK}, {<<FALSE, TRUE>>})
    \/ /\ tasks = EmptyBag
       /\ Tick
    \/ /\ tasks = EmptyBag
       /\ Cleanup
    \/ Confirm

SpecLate == Init /\ [][NextLate]_vars

\* The ledger under the hourly timer: the clock runs at irregular intervals,
\* the timer's pass runs from its SELECT to its last UPDATE, and an
\* administrator adds debts with /debt_add; one event at a time.
NextAccrual ==
    \/ /\ tasks = EmptyBag
       /\ \E d \in Spans : Elapse(d)
    \/ /\ tasks = EmptyBag
       /\ TimerFires
    \/ /\ tasks = EmptyBag
       /\ \E b \in AddUsers, n \in AddAmounts : DebtAdd(Admin, b, n)
    \/ \E t \in Running : InterestSelect(t)
    \/ \E t \in Running : InterestLoop(t)
    \/ \E t \in Running : InterestUpdate(t)
    \/ \E t \in Running : LogConnect(t)
    \/ \E t \in Running : LogDebt(t)
    \/ \E t \in Running : Finish(t)

SpecAccrual == Init /\ [][NextAccrual]_vars

\* The ledger under the hourly timer on a host whose clock may be set back
\* between two events; the clock goes on by half a week at a time.  To keep
\* the dates bounded the timer fires when every debt is behind the clock or
\* no later than the start-up.
NextClock ==
    \/ /\ tasks = EmptyBag
       /\ Elapse((DaysPerWeek * DayMs) \div 2)
    \/ /\ tasks = EmptyBag
       /\ \E d \in Rewinds : Rewind(d)
    \/ /\ tasks = EmptyBag
       /\ \A r \in debts : r.last_interest_at <= now \/ r.last_interest_at <= StartMs
       /\ TimerFires
    \/ /\ tasks = EmptyBag
       /\ \E b \in AddUsers : DebtAdd(Admin, b, 100)
    \/ \E t \in Running : InterestSelect(t)
    \/ \E t \in Running : InterestLoop(t)
    \/ \E t \in Running : InterestUpdate(t)
    \/ \E t \in Running : LogConnect(t)
    \/ \E t \in Running : LogDebt(t)
    \/ \E t \in Running : Finish(t)

SpecClock == Init /\ [][NextClock]_vars

\* The ledger under the hourly timer with a database that may fail: a query
\* of the pass may throw.
NextRetry ==
    \/ NextAccrual
    \/ \E t \in Running : InterestFails(t)

SpecRetry == Init /\ [][NextRetry]_vars

\* Repayments of 1000 while the hourly timer runs: the timer's pass and the
\* confirmation handlers interleave at their awaits.  The clock stands still.
RaceContents == {TakeKakera1000, MudaeRemoved1000}

NextRace ==
    \/ Deliver(SessionUsers, RaceContents, {CHECKMARK}, {<<FALSE, TRUE>>})
    \/ TimerFires
    \/ \E t \in Running : InterestSelect(t)
    \/ \E t \in Running : InterestLoop(t)
    \/ \E t \in Running : InterestUpdate(t)
    \/ \E t \in Running : PaySelect(t)
    \/ \E t \in Running : PayUpdate(t)
    \/ \E t \in Running : Finish(t)

SpecRace == Init /\ [][NextRace]_vars

\* Repayments of 100 and 1000 for <@1>, one event at a time, on ledgers that
\* earlier runs left: a paid debt, two open debts of <@1> (the older one
\* first), and an open debt of <@2>.  The clock stands still.
PaidBefore == [NewDebt(1, <<"1">>, "admin", 200, StartMs - 3 * DayMs)
                  EXCEPT !.amount_remaining = 0, !.status = "paid"]

Owing(older, newer) ==
    {PaidBefore,
     NewDebt(2, <<"1">>, "admin", older, StartMs - 2 * DayMs),
     NewDebt(3, <<"1">>, "admin", newer, StartMs - DayMs),
     NewDebt(4, <<"2">>, "admin", 300, StartMs - DayMs)}

\* two open debts of <@1> logged at the same millisecond
Tied ==
    {NewDebt(1, <<"1">>, "admin", 500, StartMs - DayMs),
     NewDebt(2, <<"1">>, "admin", 800, StartMs - DayMs)}

PayLedgers == InitialLedgers \cup {Owing(500, 800), Owing(500, 400), Tied}

PayContents == {KakeraRemove100, TakeKakera1000, MudaeRemoved100, MudaeRemoved1000}

InitPay ==
    /\ variant \in Variants
    /\ isTrackingEnabled = TRUE
    /\ pendingActions = EmptyMap
    /\ pendingLoans = EmptyMap
    /\ pendingRepayments = EmptyMap
    /\ debts \in PayLedgers
    /\ nextId = MaxOf({r.id : r \in debts}) + 1
    /\ now = StartMs
    /\ nextMsgId = 1
    /\ tasks = SetToBag({Task("ready", NoAction, 0)})
    /\ applied = [m \in 1..MaxMsgs |-> 0]
    /\ uncaught = FALSE
    /\ rejected = FALSE
    /\ cutShort = FALSE
    /\ timers = FALSE

NextPay ==
    \/ /\ tasks = EmptyBag
       /\ Deliver(SessionUsers, PayContents, {CHECKMARK}, {<<FALSE, TRUE>>})
    \/ \E t \in Running : InterestSelect(t)
    \/ \E t \in Running : InterestLoop(t)
    \/ \E t \in Running : InterestUpdate(t)
    \/ \E t \in Running : PaySelect(t)
    \/ \E t \in Running : PayUpdate(t)
    \/ \E t \in Running : Finish(t)

SpecPay == InitPay /\ [][NextPay]_vars

\* The operations on the ledger: loans and repayments of an administrator
\* confirmed by Mudae, the hourly timer, /debt_status and /debt_add.  The
\* handlers interleave at their awaits, and confirmations (and the triggers
\* of part_001b, which are their own confirmation) arrive at any moment; a
\* trigger that registers an entry, a timer pass, a status query or an add
\* command starts when no handler is suspended.  The clock stands still.
\* The table is empty at start-up, or holds a paid debt and an open debt of
\* 500 that is a week old.
LedgerContents == PayContents \cup {GiveScrap100}

InitLedger ==
    /\ variant \in Variants
    /\ isTrackingEnabled = TRUE
    /\ pendingActions = EmptyMap
    /\ pendingLoans = EmptyMap
    /\ pendingRepayments = EmptyMap
    /\ debts \in { {}, {PaidBefore, NewDebt(2, <<"1">>, "admin", 500, 0)} }
    /\ nextId = MaxOf({r.id : r \in debts}) + 1
    /\ now = StartMs
    /\ nextMsgId = 1
    /\ tasks = SetToBag({Task("ready", NoAction, 0)})
    /\ applied = [m \in 1..MaxMsgs |-> 0]
    /\ uncaught = FALSE
    /\ rejected = FALSE
    /\ cutShort = FALSE
    /\ timers = FALSE

NextLedger ==
    \/ /\ tasks = EmptyBag
       /\ \E a \in SessionUsers, c \in LedgerContents, ch \in Channels : AdminMessage(a, c, ch)
    \/ \E a \in SessionUsers, c \in LedgerContents : DirectMessage(a, c)
    \/ \E a \in SessionUsers, c \in LedgerContents, ch \in Channels : MudaeMessage(a, c, ch)
    \/ \E u \in SessionUsers, m \in 1..MaxMsgs : ReactionAdd(u, CHECKMARK, m, FALSE, TRUE)
    \/ Confirm
    \/ /\ tasks = EmptyBag
       /\ TimerFires
    \/ /\ tasks = EmptyBag
       /\ DebtStatus(Admin)
    \/ /\ tasks = EmptyBag
       /\ \E b \in AddUsers, n \in AddAmounts : DebtAdd(Admin, b, n)
    \/ \E t \in Running : StatusSelect(t)
    \/ \E t \in Running : StatusReport(t)
    \/ \E t \in Running : StatusReply(t)

SpecLedger == InitLedger /\ [][NextLedger]_vars

\* /debt_status of an administrator on the ledgers of earlier runs; a trigger
\* may be pending and the tracking may be switched.  A command starts when
\* no handler is suspended.  The clock runs at any moment, also while the
\* handler is suspended at an await between the new Date() of the pass and
\* the new Date() of the report; a query of the pass may fail.
NextStatus ==
    \/ \E d \in Spans : Elapse(d)
    \/ /\ tasks = EmptyBag
       /\ DebtStatus(Admin)
    \/ /\ tasks = EmptyBag
       /\ AdminMessage(Admin, GiveScrap100, 1)
    \/ /\ tasks = EmptyBag
       /\ \E m \in Modes : DebtToggle(Admin, m)
    \/ \E t \in Running : InterestSelect(t)
    \/ \E t \in Running : InterestLoop(t)
    \/ \E t \in Running : InterestUpdate(t)
    \/ \E t \in Running : InterestFails(t)
    \/ \E t \in Running : StatusSelect(t)
    \/ \E t \in Running : StatusReport(t)
    \/ \E t \in Running : StatusReply(t)

SpecStatus == InitPay /\ [][NextStatus]_vars

\* The four slash commands invoked by every user, one event at a time, with
\* triggers of an administrator pending.  The clock stands still.
NextCommands ==
    \/ /\ tasks = EmptyBag
       /\ \E c \in SessionContents : AdminMessage(Admin, c, 1)
    \/ /\ tasks = EmptyBag
       /\ \E u \in Users, m \in Modes : DebtToggle(u, m)
    \/ /\ tasks = EmptyBag
       /\ \E u \in Users : DebtStatus(u)
    \/ /\ tasks = EmptyBag
       /\ \E u \in Users, b \in AddUsers, n \in AddAmounts : DebtAdd(u, b, n)
    \/ /\ tasks = EmptyBag
       /\ \E u \in Users, i \in 1..MaxDebts : DebtDelete(u, i)
    \/ \E t \in Running : InterestSelect(t)
    \/ \E t \in Running : InterestLoop(t)
    \/ \E t \in Running : InterestUpdate(t)
    \/ \E t \in Running : StatusSelect(t)
    \/ \E t \in Running : StatusReport(t)
    \/ \E t \in Running : StatusReply(t)
    \/ \E t \in Running : LogConnect(t)
    \/ \E t \in Running : LogDebt(t)
    \/ \E t \in Running : Finish(t)

SpecCommands == Init /\ [][NextCommands]_vars

\* The session, the hourly timer and /debt_status, /debt_add, /debt_delete and
\* /debt_toggle of every user, with a database and replies that may fail: at
\* every await of a storage call or of a reply the call may throw
\* (InterestFails, Throws, and CommandFails after the step of a command, or
\* in the place of /debt_delete when pool.connect() throws).  A command of a
\* user outside ADMIN_IDS is the step that sends the reply "Unauthorized";
\* the rejection of that reply is a later step, with other events between.
\* The events that start a handler come one at a time; the clock stands
\* still.
NextFaults ==
    \/ /\ tasks = EmptyBag
       /\ Deliver(SessionUsers, SessionContents, {CHECKMARK}, {<<FALSE, TRUE>>})
    \/ /\ tasks = EmptyBag
       /\ TimerFires
    \/ /\ tasks = EmptyBag
       /\ \E u \in Users : DebtStatus(u)
    \/ /\ tasks = EmptyBag
       /\ \E u \in Users, b \in AddUsers : DebtAdd(u, b, 100)
    \/ /\ tasks = EmptyBag
       /\ \E u \in Users, i \in 1..MaxDebts : DebtDelete(u, i)
    \/ /\ tasks = EmptyBag
       /\ \E u \in Users, m \in Modes : DebtToggle(u, m)
    \/ \E u \in Users : CommandFails(u)
    \/ Confirm
    \/ \E t \in Running : StatusSelect(t)
    \/ \E t \in Running : StatusReport(t)
    \/ \E t \in Running : StatusReply(t)
    \/ \E t \in Running : InterestFails(t)
    \/ \E t \in Running : Throws(t)

SpecFaults == Init /\ [][NextFaults]_vars


-----------------------------------------------------------------------------
(* Properties *)

\* the entries the pending tables hold
Entries ==
    {pendingActions[k] : k \in DOMAIN pendingActions}
    \cup {pendingLoans[k] : k \in DOMAIN pendingLoans}
    \cup {pendingRepayments[k] : k \in DOMAIN pendingRepayments}

\* whether the entry created by message m is in a pending table
Live(m) == \E e \in Entries : e.ref = m

\* the handlers that confirm a pending entry
Confirming == {t \in Running : t.kind \in {"reaction", "mudae"}}

\* C1: under any interleaving of handlers, the ledger action of a pending
\* entry (logDebt for LOAN, payDebt for REPAY) is executed at most once.
C1_AtMostOnce == \A m \in DOMAIN applied : applied[m] <= 1

\* C2: when events are delivered one at a time, a pending entry whose
\* confirmation handler has run to completion is no longer in the pending
\* table, and no later confirmation signal applies it again: its ledger action
\* has run exactly once.
C2_ConsumedOnce ==
    \A m \in DOMAIN applied :
        /\ applied[m] <= 1
        /\ (tasks = EmptyBag /\ applied[m] = 1) => ~Live(m)

\* C2, witness: in index.js the entry of message 1 has been applied, its
\* handler has ended and the entry is gone; the next reaction finds nothing.
C2_Witness ==
    /\ variant = "index"
    /\ applied[1] = 1
    /\ tasks = EmptyBag
    /\ ~MapHas(pendingActions, 1)
    /\ debts # {}

\* the handlers of a trigger message that go on to the ledger themselves
Direct == {t \in Running : t.kind = "direct"}

\* C3: the handler of an administrator's trigger message inserts, updates and
\* deletes no debt row: neither the step that takes the message nor any
\* statement the handler of that message runs afterwards changes the ledger.
C3_TriggerLeavesLedger ==
    [][/\ \A a \in SessionUsers, c \in SessionContents, ch \in Channels :
             AdminMessage(a, c, ch) => debts' = debts
       /\ \A a \in SessionUsers, c \in SessionContents :
             DirectMessage(a, c) => debts' = debts
       /\ \A t \in Direct :
             (InterestUpdate(t) \/ LogDebt(t) \/ PayUpdate(t)) => debts' = debts]_vars

\* C4: while isTrackingEnabled is false, a message creates no pending entry
\* and no reaction or message of Mudae starts a confirmation.
C4_OffMeansOff ==
    [][~isTrackingEnabled =>
          /\ \A a \in SessionUsers, c \in SessionContents, ch \in Channels :
                /\ AdminMessage(a, c, ch) => Pending' = Pending
                /\ MudaeMessage(a, c, ch) => tasks' = tasks
          /\ \A u \in SessionUsers, m \in 1..MaxMsgs :
                ReactionAdd(u, CHECKMARK, m, FALSE, TRUE) => tasks' = tasks]_vars

\* the map and the key under which build `variant` stores a proposal of
\* type ty made in channel ch by the message with identity id
KeyOf(ty, ch, id) == IF variant \in ChannelKeyed /\ ty = "REPAY" THEN ch ELSE id
MapOf(ty, pa, pl, pr) ==
    IF variant = "index" THEN pa ELSE IF ty = "LOAN" THEN pl ELSE pr

\* C5: a trigger leaves under its correlation key exactly its own entry,
\* whatever the key held before, and every other key as it was; a confirmation
\* that starts afterwards works on the entry the key holds then, and its
\* ledger action takes subject and amount from that entry.
C5_LastWriteWins ==
    [][/\ nextMsgId' # nextMsgId =>
          \A a \in SessionUsers, c \in SessionContents, ch \in Channels :
             LET p   == Proposals[<<variant, isTrackingEnabled, a, c>>]
                 key == KeyOf(p.type, ch, nextMsgId)
                 old == MapOf(p.type, pendingActions, pendingLoans, pendingRepayments)
                 new == MapOf(p.type, pendingActions', pendingLoans', pendingRepayments')
             IN  (AdminMessage(a, c, ch) /\ p.type # "NONE") =>
                    /\ DOMAIN new = DOMAIN old \cup {key}
                    /\ new[key] = [type |-> p.type, adminId |-> a.id, userId |-> p.userId,
                                   amount |-> p.amount, timestamp |-> now, ref |-> nextMsgId]
                    /\ \A k \in DOMAIN old \ {key} : new[k] = old[k]
       /\ tasks' # tasks =>
          \A a \in SessionUsers, c \in SessionContents, ch \in Channels :
             MudaeMessage(a, c, ch) =>
                \E t \in BagToSet(tasks') :
                    /\ tasks' = Start(t)
                    /\ t.action = pendingRepayments[ch]
       /\ tasks' # tasks =>
          \A u \in SessionUsers, m \in 1..MaxMsgs :
             ReactionAdd(u, CHECKMARK, m, FALSE, TRUE) =>
                \E t \in BagToSet(tasks') :
                    /\ tasks' = Start(t)
                    /\ t.action = ReactionMap[m]
       /\ applied' # applied =>
          \A t \in Confirming :
             /\ LogDebt(t) =>
                   \E r \in debts' \ debts :
                       /\ r.borrower_id = t.action.userId
                       /\ r.amount_initial = t.action.amount
                       /\ t.action.type = "LOAN"
             /\ PaySelect(t) =>
                   \E u \in BagToSet(tasks') :
                       /\ u.remaining = t.action.amount
                       /\ \A i \in 1..Len(u.rows) : u.rows[i].borrower_id = t.action.userId
                       /\ t.action.type = "REPAY"]_vars

\* C5, witness: in a build keyed by channel a second repayment trigger has
\* replaced the first in channel 1 and has been applied; the first never was.
C5_Witness ==
    /\ variant \in ChannelKeyed
    /\ applied[1] = 0
    /\ applied[2] = 1
    /\ \E t \in Running : t.kind = "mudae" /\ t.action.ref = 2 /\ t.pc = "finish"


\* C6: one run of the cleanup timer removes every pending entry whose age,
\* now - timestamp, exceeds RetentionMs, keeps every entry whose age is at most
\* RetentionMs as it was, and changes no debt row.
C6_SweepsExpired ==
    [][Cleanup =>
          /\ \A q \in {<<pendingActions, pendingActions'>>,
                       <<pendingLoans, pendingLoans'>>,
                       <<pendingRepayments, pendingRepayments'>>} :
                /\ DOMAIN q[2] = {k \in DOMAIN q[1] : now - q[1][k].timestamp <= RetentionMs}
                /\ \A k \in DOMAIN q[2] : q[2][k] = q[1][k]
          /\ debts' = debts]_vars

\* C6, witness: in index.js the entry of message 1 is gone without having been
\* applied (it was swept at an age above RetentionMs), and the entry of
\* message 2, exactly RetentionMs old, is still there.
C6_Witness ==
    /\ variant = "index"
    /\ nextMsgId = 3
    /\ applied[1] = 0
    /\ ~MapHas(pendingActions, 1)
    /\ MapHas(pendingActions, 2)
    /\ now - pendingActions[2].timestamp = RetentionMs
    /\ tasks = EmptyBag

\* the amount a message of Mudae states: the number at its head, between the
\* asterisks, commas left out
StatedAmount(content) ==
    LET a == Run(content, 1, {"*"})
        b == Run(content, 1 + a, Digit \cup {","})
    IN  ParseInt(RemoveCommas(SubSeq(content, 1 + a, a + b)))

\* C7: a message of Mudae starts the repayment of the channel's pending entry
\* only if the amount it states equals the pending amount and the word
\* "removed" is in it.
C7_ExactAmount ==
    [][\A a \in Users, c \in Contents, ch \in Channels :
          (MudaeMessage(a, c, ch) /\ tasks' # tasks) =>
             /\ StatedAmount(c) = pendingRepayments[ch].amount
             /\ Includes(ToLowerCase(c), RemovedWord)]_vars

\* what the command grammar makes of the messages delivered, read off the
\* messages themselves
Meaning(content) ==
    CASE content \in {GiveScrap100, GiveExempt, GiveExemptUpper, GiveScrapReturn} ->
            [type |-> "LOAN", userId |-> <<"1">>, amount |-> 100]
      [] content = GiveKakera1000 ->
            [type |-> "LOAN", userId |-> <<"1">>, amount |-> 1000]
      [] content = KakeraRemove100 ->
            [type |-> "REPAY", userId |-> <<"1">>, amount |-> 100]
      [] content = TakeKakera1000 ->
            [type |-> "REPAY", userId |-> <<"1">>, amount |-> 1000]
      [] content = GiveScrapZero ->
            [type |-> "LOAN", userId |-> <<"1">>, amount |-> 0]
      [] OTHER -> NoProposal

\* C8: a message changes the pending table only if its author is no bot and
\* is in ADMIN_IDS, tracking is on, the text has no "#exempt" in it and fits
\* the command grammar; the change is then one entry, whose type is LOAN for a
\* give verb and REPAY for a take verb and whose subject and amount are those
\* of the message.  Every other message leaves the pending table as it was.
C8_OnlyQualified ==
    [][Pending' # Pending =>
       \A a \in Users, c \in Contents, ch \in Channels :
          LET p   == Meaning(c)
              key == KeyOf(p.type, ch, nextMsgId)
              old == MapOf(p.type, pendingActions, pendingLoans, pendingRepayments)
              new == MapOf(p.type, pendingActions', pendingLoans', pendingRepayments')
          IN  AdminMessage(a, c, ch) =>
                 /\ ~a.bot
                 /\ a.id \in ADMIN_IDS
                 /\ isTrackingEnabled
                 /\ ~Includes(c, ExemptMarker)
                 /\ p.type # "NONE"
                 /\ new = MapSet(old, key,
                                 [type |-> p.type, adminId |-> a.id, userId |-> p.userId,
                                  amount |-> p.amount, timestamp |-> now,
                                  ref |-> nextMsgId])
                 /\ \A q \in {<<pendingActions, pendingActions'>>,
                              <<pendingLoans, pendingLoans'>>,
                              <<pendingRepayments, pendingRepayments'>>} :
                       q[1] # old => q[2] = q[1]]_vars

\* C8, witness: a loan of 1000 proposed with "$GiveKakera <@!1> 1000" and a
\* repayment of 100 proposed with "$kakeraremove <@1> 100" are both pending.
C8_Witness ==
    /\ \E e \in Entries : e.type = "LOAN" /\ e.amount = 1000 /\ e.userId = <<"1">>
    /\ \E e \in Entries : e.type = "REPAY" /\ e.amount = 100 /\ e.adminId = "admin"

\* C9: a reaction starts a confirmation only if the user who reacted is Mudae,
\* the emoji is the checkmark, a partial reaction could be fetched, and the
\* message reacted to is the key of an entry the map holds; the step itself
\* changes no pending entry and no debt row, and any other reaction starts
\* nothing.
C9_OnlyMudaeCheckmark ==
    [][/\ tasks' # tasks =>
          \A u \in Users, e \in Emojis, m \in 1..MaxMsgs, f \in Fetches :
             ReactionAdd(u, e, m, f[1], f[2]) =>
                /\ u.id = MUDAE_ID
                /\ e \in {CHECKMARK, "white_check_mark"}
                /\ f[1] => f[2]
                /\ MapHas(ReactionMap, m)
       /\ (Pending' # Pending \/ debts' # debts) =>
          \A u \in Users, e \in Emojis, m \in 1..MaxMsgs, f \in Fetches :
             ~ReactionAdd(u, e, m, f[1], f[2])]_vars

\* C9, witness: a handler of messageReactionAdd has taken the entry of
\* message 1 and waits for applyInterest, with the entry still in the map.
C9_Witness ==
    \E t \in Running :
        /\ t.kind = "reaction"
        /\ t.pc = "ai_select"
        /\ t.key = 1
        /\ MapHas(ReactionMap, 1)

\* C10: in a confirmation handler the statements of logDebt / payDebt run
\* only when applyInterest has returned, no statement of the accrual pass runs
\* once they have begun, and the handler comes to deleting its entry only
\* after them.
C10_AccrueActDelete ==
    \A t \in Confirming :
        /\ t.acted => t.accrued
        /\ t.pc \in {"log", "pay_select", "pay_update"} => t.accrued
        /\ t.pc \in {"ai_select", "ai_loop", "ai_update"} => (~t.accrued /\ ~t.acted)
        /\ t.pc = "finish" => (t.accrued /\ t.acted)

\* C10, witness: a confirmation handler is about to delete its entry, after
\* an accrual pass that rewrote debt 1 and after its own ledger action.
C10_Witness ==
    \E t \in Confirming :
        /\ t.pc = "finish"
        /\ t.acted
        /\ MapHas(IF t.kind = "reaction" THEN ReactionMap ELSE pendingRepayments, t.key)
        /\ \E r \in debts : r.id = 1 /\ r.last_interest_at = now /\ r.created_at < now

\* C11: the logDebt of a confirmed LOAN entry adds exactly one row to table
\* debts and changes no other: the row is new, its borrower is the entry's
\* userId, its lender the entry's adminId, amount_initial and amount_remaining
\* are the entry's amount, its status is open, and created_at and
\* last_interest_at are both the time logDebt read when it sent the INSERT,
\* which is not after the time the row appears.
C11_LoanAddsOneRow ==
    [][applied' # applied =>
       \A t \in Confirming :
          LogDebt(t) =>
             \E r \in debts' :
                /\ debts' = debts \cup {r}
                /\ \A q \in debts : q.id # r.id
                /\ r.borrower_id = t.action.userId
                /\ r.admin_id = t.action.adminId
                /\ r.amount_initial = t.action.amount
                /\ r.amount_remaining = t.action.amount
                /\ r.status = "open"
                /\ r.created_at = t.at
                /\ r.last_interest_at = t.at
                /\ t.at <= now]_vars

\* C11, witness: the loan of 100 of message 1 has been confirmed once and is
\* row 2 of the table, next to row 1 as the accrual pass before it left it;
\* the handler is at its reply and the clock has gone on since logDebt read it.
C11_Witness ==
    /\ applied[1] = 1
    /\ \E r \in debts :
          /\ r.id = 2 /\ r.amount_remaining = 100 /\ r.borrower_id = <<"1">>
          /\ r.created_at < now
          /\ \E t \in Confirming : t.pc = "finish" /\ t.at = r.created_at
    /\ \E r \in debts : r.id = 1 /\ r.amount_remaining = 1050

\* the whole weeks between two times, from <= to
Weeks(from, to) == ((to - from) \div DayMs) \div DaysPerWeek

RECURSIVE Grow(_, _)
\* r -> ceil(r * 1.05), w times in sequence
Grow(r, w) == IF w = 0 THEN r ELSE Grow(0 - ((0 - 105 * r) \div 100), w - 1)

\* the accrual passes under way: those of the hourly timer and the one at
\* start-up
Passes == {t \in Running : t.kind \in {"timer", "ready"}}

\* C12: with w = floor(floor((now - last_interest_at) / 1 day) / 7) of an open
\* debt, an accrual pass does not visit the debt when w = 0, and when w >= 1
\* its UPDATE sets amount_remaining to r -> ceil(r * 1.05) applied w times and
\* last_interest_at to last_interest_at + w * 7 days, and changes nothing else.
C12_AccrualArithmetic ==
    [][/\ \A t \in Passes :
             InterestSelect(t) => debts' = debts
       /\ \A t \in Passes :
             InterestLoop(t) =>
                /\ debts' = debts
                /\ \A r \in debts :
                      LET visited == \E u \in BagToSet(tasks') :
                                        \E i \in 1..Len(u.rows) : u.rows[i].id = r.id
                      IN  visited <=> (r.status = "open" /\ Weeks(r.last_interest_at, now) >= 1)
       /\ \A t \in Passes :
             InterestUpdate(t) =>
                LET d == Head(t.rows)
                    w == Weeks(d.last_interest_at, t.at)
                IN  /\ w >= 1
                    /\ d \in debts
                    /\ debts' = (debts \ {d}) \cup
                          {[d EXCEPT !.amount_remaining = Grow(d.amount_remaining, w),
                                     !.last_interest_at = d.last_interest_at
                                                          + w * DaysPerWeek * DayMs]}]_vars

\* C12, witness: the debt of 1000 stands at 1103 with last_interest_at 14 days
\* after its creation.
C12_Witness ==
    \E r \in debts :
        /\ r.amount_initial = 1000
        /\ r.amount_remaining = 1103
        /\ r.last_interest_at - r.created_at = 14 * DayMs

\* C13: while less than a whole week has passed since the last_interest_at of
\* a debt, no step of an accrual pass changes the debt: a second pass in the
\* same week leaves amount_remaining and last_interest_at as the first left
\* them.
C13_IdempotentInWeek ==
    [][\A r \in debts :
          (r.last_interest_at <= now /\ now - r.last_interest_at < DaysPerWeek * DayMs)
             => r \in debts']_vars

\* C13, witness: a second pass starts half a week after the pass that took the
\* debt of 1000 to 1050.
C13_Witness ==
    /\ \E t \in Passes : t.pc = "ai_select"
    /\ \E r \in debts :
          /\ r.amount_remaining = 1050
          /\ r.last_interest_at = DaysPerWeek * DayMs
          /\ now - r.last_interest_at = (DaysPerWeek * DayMs) \div 2

\* C14: however the passes were spread over time, a debt that was never
\* repaid always stands where a single pass would have put it: its
\* last_interest_at is a whole number w of weeks after created_at and its
\* amount_remaining is amount_initial grown w times; and when a pass ends, w
\* is the number of whole weeks from created_at to the time of that pass, as
\* after one pass at that time.
C14_PassesCompose ==
    [][/\ \A r \in debts' :
             LET w == Weeks(r.created_at, r.last_interest_at)
             IN  /\ r.last_interest_at = r.created_at + w * DaysPerWeek * DayMs
                 /\ r.amount_remaining = Grow(r.amount_initial, w)
       /\ (Passes # {} /\ tasks' = EmptyBag) =>
             \A r \in debts' :
                 Weeks(r.created_at, r.last_interest_at) = Weeks(r.created_at, now)]_vars

\* C14, witness: a debt added half a week after start-up has been charged
\* one week, by a pass that ran eight days and a half and an hour after the
\* debt was made; its last_interest_at is seven days after its creation, and
\* the debt of 1000 of the start stands at 1103.
C14_Witness ==
    /\ tasks = EmptyBag
    /\ \E r \in debts :
          /\ r.created_at = StartMs + (DaysPerWeek * DayMs) \div 2
          /\ r.amount_initial = 100
          /\ r.amount_remaining = 105
          /\ r.last_interest_at = r.created_at + DaysPerWeek * DayMs
          /\ now = r.created_at + 8 * DayMs + DayMs \div 2 + DayMs \div 24
    /\ \E r \in debts : r.amount_initial = 1000 /\ r.amount_remaining = 1103

\* C16: the UPDATE of an accrual pass never leaves a debt with less
\* amount_remaining than it had, nor with an earlier last_interest_at.
C16_NeverDecreases ==
    [][\A t \in Passes :
          InterestUpdate(t) =>
             \A r \in debts' :
                r.id = Head(t.rows).id =>
                   /\ r.amount_remaining >= Head(t.rows).amount_remaining
                   /\ r.last_interest_at >= Head(t.rows).last_interest_at]_vars

\* C19: every debt row has 0 <= amount_remaining <= amount_initial compounded
\* over the whole weeks between created_at and last_interest_at.
C19_RemainingInRange ==
    \A r \in debts :
        /\ 0 <= r.amount_remaining
        /\ r.amount_remaining
              <= Grow(r.amount_initial, Weeks(r.created_at, r.last_interest_at))

\* C15: under any interleaving of accrual passes and repayments, a debt whose
\* status is paid has amount_remaining 0, and no step changes a row that is
\* paid.
C15_PaidNeverAccrues ==
    [][/\ \A r \in debts : r.status = "paid" => r \in debts'
       /\ \A r \in debts' : r.status = "paid" => r.amount_remaining = 0]_vars

\* the calls of payDebt under way or just returned
Paying == {t \in Running : t.action.type = "REPAY" /\ t.acted}

\* C17: payDebt visits the borrower's open debts oldest first.  The rows it
\* read are open debts of the borrower in ascending created_at; its records
\* follow the rows in that order and only the last record can be a partial
\* reduction; an UPDATE touches one row of the borrower, every older row of
\* the borrower that the call read is paid by then, every other row of the
\* table stays as it was, and a partial reduction ends the call.
C17_OldestFirst ==
    [][/\ \A t \in Paying :
             /\ \A i \in 1..Len(t.read) :
                    /\ t.read[i].borrower_id = t.action.userId
                    /\ t.read[i].status = "open"
                    /\ \A j \in 1..(i - 1) :
                           t.read[j].created_at <= t.read[i].created_at
             /\ Len(t.logs) <= Len(t.read)
             /\ \A i \in 1..Len(t.logs) :
                    /\ t.logs[i].id = t.read[i].id
                    /\ ~t.logs[i].paid => i = Len(t.logs) /\ t.pc = "finish"
       /\ debts' # debts =>
             \A t \in Paying : t.pc = "pay_update" =>
                LET n == Len(t.logs) + 1
                    d == t.read[n]
                IN  /\ \A r \in debts : r.id # d.id => r \in debts'
                    /\ \A r \in debts :
                           (/\ r.borrower_id = d.borrower_id
                            /\ r.created_at < d.created_at
                            /\ \E i \in 1..Len(t.read) : t.read[i].id = r.id)
                           => r.status = "paid" /\ r.amount_remaining = 0
                    /\ \E r \in debts' :
                           /\ r.id = d.id
                           /\ \/ r.status = "paid" /\ r.amount_remaining = 0
                              \/ /\ r.status = "open"
                                 /\ r.amount_remaining < d.amount_remaining
                                 /\ \A u \in BagToSet(tasks') : u.pc = "finish"]_vars

\* C17: a payment cleared the older debt and reduced the newer one, with the
\* paid debt and the debt of another borrower left as they were
C17_Witness ==
    \E t \in Paying :
        /\ t.pc = "finish"
        /\ Len(t.logs) = 2
        /\ t.logs[1].paid /\ ~t.logs[2].paid
        /\ t.read[1].created_at < t.read[2].created_at
        /\ \E r \in debts : r.id = t.logs[2].id /\ r.amount_remaining = t.logs[2].left
        /\ PaidBefore \in debts
        /\ \E r \in debts : r.borrower_id # t.action.userId /\ r.status = "open"

\* the sum of the balances of rows
RECURSIVE SumRemaining(_)
SumRemaining(rows) ==
    IF rows = <<>> THEN 0
    ELSE Head(rows).amount_remaining + SumRemaining(Tail(rows))

\* the rows of the table now that have the ids of rows
Current(rows) ==
    [i \in 1..Len(rows) |-> CHOOSE r \in debts : r.id = rows[i].id]

Min(a, b) == IF a <= b THEN a ELSE b

\* C18: when a payDebt call of payment p returns, the balances of the
\* borrower's debts that were open (sum T) sum to T - min(p, T); with p >= T
\* each of them is paid with balance 0; no balance is negative, and the call
\* adds no row and no pending entry.
C18_ReducesByMin ==
    [][/\ \A t \in Paying : t.pc = "finish" =>
             LET p == t.action.amount
                 T == SumRemaining(t.read)
             IN  /\ SumRemaining(Current(t.read)) = T - Min(p, T)
                 /\ p >= T => \A i \in 1..Len(t.read) :
                                 /\ Current(t.read)[i].status = "paid"
                                 /\ Current(t.read)[i].amount_remaining = 0
                 /\ \A r \in debts : r.amount_remaining >= 0
       /\ \A t \in Running : t.pc \in {"pay_select", "pay_update"} =>
             /\ {r.id : r \in debts'} = {r.id : r \in debts}
             /\ <<pendingActions, pendingLoans, pendingRepayments>>' =
                   <<pendingActions, pendingLoans, pendingRepayments>>]_vars

\* C18: a payment larger than the two open debts together returned, and
\* both are paid
C18_Witness ==
    \E t \in Paying :
        /\ t.pc = "finish"
        /\ Len(t.read) = 2
        /\ SumRemaining(t.read) > 0
        /\ t.action.amount > SumRemaining(t.read)
        /\ \A i \in 1..2 : Current(t.read)[i].status = "paid"

\* C20: every pending entry holds an integer amount greater than zero.
C20_AmountPositive == \A e \in Entries : e.amount \in Nat /\ e.amount > 0

\* C21: no step of any operation takes a debt from paid to open: a row that
\* is paid is paid after the step, or has been deleted.
C21_PaidIsTerminal ==
    [][debts' # debts =>
          \A r \in debts : r.status = "paid" =>
             \A q \in debts' : q.id = r.id => q.status = "paid"]_vars

\* C21, witness: the UPDATE of a second repayment, computed from the row as
\* it was read, reached a debt that the first repayment had paid; the debt
\* is still paid
C21_Witness ==
    \E r \in debts : r.status = "paid" /\ r.amount_remaining > 0

\* C22: every debt has last_interest_at >= created_at, and a step changes
\* the amount_remaining of a row only as the UPDATE of an accrual pass, which
\* does not decrease it, or as the UPDATE of a repayment, which does not
\* increase it.
C22_OnlyAccrualAndRepayment ==
    [][/\ \A r \in debts' : r.last_interest_at >= r.created_at
       /\ debts' # debts =>
             \A r \in debts : \A q \in debts' :
                (q.id = r.id /\ q.amount_remaining # r.amount_remaining) =>
                   \/ /\ \E t \in Running : t.pc = "ai_update" /\ Head(t.rows).id = r.id
                      /\ q.amount_remaining > r.amount_remaining
                   \/ /\ \E t \in Running : t.pc = "pay_update" /\ Head(t.rows).id = r.id
                      /\ q.amount_remaining < r.amount_remaining]_vars

\* the /debt_status commands under way
Queries == {t \in Running : t.kind = "status"}

\* text a is before text b in the order of their characters
Lex(a, b) ==
    \E k \in 1..Len(b) :
        /\ k <= Len(a) + 1
        /\ \A i \in 1..(k - 1) : a[i] = b[i]
        /\ k <= Len(a) => DigitValue(a[k]) < DigitValue(b[k])

\* C23: /debt_status lists, after its accrual pass, each open debt once and
\* no other row, in the order of borrower_id; the days it reports for a row
\* are 7 - (whole days since last_interest_at mod 7), a number from 0 to 7,
\* the days counted at the new Date() of the report; the steps of the command
\* after the pass change no row, no pending entry and not the tracking flag.
C23_StatusReport ==
    [][/\ \A t \in Queries : t.pc = "st_reply" =>
             /\ t.accrued
             /\ \A i, j \in 1..Len(t.rows) :
                    i < j => /\ t.rows[i].id # t.rows[j].id
                             /\ ~Lex(t.rows[j].borrower_id, t.rows[i].borrower_id)
             /\ \A i \in 1..Len(t.rows) :
                    LET row  == t.rows[i]
                        days == (t.at - row.last_interest_at) \div DayMs
                    IN  /\ row.status = "open"
                        /\ DaysUntil(row, t.at) = 7 - (days % 7)
                        /\ DaysUntil(row, t.at) \in 0..7
       /\ \A t \in Queries : t.pc = "st_select" =>
             /\ <<debts, pendingActions, pendingLoans, pendingRepayments,
                   isTrackingEnabled>>' =
                <<debts, pendingActions, pendingLoans, pendingRepayments,
                  isTrackingEnabled>>
             /\ \A u \in BagToSet(tasks') : u.pc = "st_report" =>
                   {u.rows[i] : i \in 1..Len(u.rows)} = {r \in debts : r.status = "open"}
       /\ \A t \in Queries : t.pc \in {"st_report", "st_reply"} =>
             <<debts, pendingActions, pendingLoans, pendingRepayments,
               isTrackingEnabled>>' =
             <<debts, pendingActions, pendingLoans, pendingRepayments,
               isTrackingEnabled>>]_vars

\* C24: a handler whose ledger statement has run (the SELECT of the status
\* query, the INSERT of a loan, the SELECT of a repayment) has had its
\* accrual pass return before, and every step that adds a row to the table
\* is the INSERT of such a handler.
C24_AccrualFirst ==
    [][/\ \A t \in Running : t.acted => t.accrued
       /\ \A r \in debts' :
             r.id \notin {q.id : q \in debts} =>
                \E t \in Running : t.pc = "log" /\ t.accrued]_vars

\* the users outside the allow-list
Outsiders == {u \in Users : u.id \notin ADMIN_IDS}

\* C25: /debt_status, /debt_toggle, /debt_add and /debt_delete of a user
\* outside ADMIN_IDS are answered "Unauthorized" and leave the tracking
\* flag, the pending tables, every debt row and the handlers as they were.
C25_UnauthorizedNoChange ==
    [][\A u \in Outsiders :
          (\/ DebtStatus(u)
           \/ \E m \in Modes : DebtToggle(u, m)
           \/ \E b \in AddUsers, n \in AddAmounts : DebtAdd(u, b, n)
           \/ \E i \in 1..MaxDebts : DebtDelete(u, i))
          => /\ rejected'
             /\ <<isTrackingEnabled, pendingActions, pendingLoans, pendingRepayments,
                   debts, nextId, tasks, uncaught>>' =
                <<isTrackingEnabled, pendingActions, pendingLoans, pendingRepayments,
                  debts, nextId, tasks, uncaught>>]_vars

\* C25, witness: a command was answered "Unauthorized" while tracking is on,
\* a trigger is pending and a debt is open
C25_Witness ==
    /\ rejected
    /\ isTrackingEnabled
    /\ Entries # {}
    /\ \E r \in debts : r.status = "open"
    /\ tasks = EmptyBag

\* C26: when a confirmation handler ends, by its last statement or by an
\* error of a storage call, the entry it was started for is in no pending
\* table.
C26_EntryRemovedOnFailure ==
    [][tasks' # tasks =>
          \A t \in Confirming : tasks' = Stop(t) => ~Live(t.action.ref)']_vars

\* C27: no error of a storage call leaves the timer callback or the handler
\* it was raised in.
C27_NothingEscapes == uncaught = FALSE

\* C28: with passes that may fail at any query, every debt is charged each
\* week since its creation at most once (amount_remaining and
\* last_interest_at are those of a whole number w of weeks), and when a pass
\* ends with its last UPDATE done every open debt has been charged all the
\* weeks that have passed, as by one pass at that moment.
C28_RetryCatchesUp ==
    [][debts' # debts =>
          /\ \A r \in debts' :
                \E w \in 0..(MaxDays \div DaysPerWeek + 1) :
                    /\ r.last_interest_at = r.created_at + w * DaysPerWeek * DayMs
                    /\ r.amount_remaining = Grow(r.amount_initial, w)
          /\ (Passes # {} /\ tasks' = EmptyBag) =>
                \A r \in debts' :
                    (now - r.last_interest_at) \div DayMs < DaysPerWeek]_vars

\* C28, witness: a pass was cut short by a failed UPDATE, and after a later
\* pass two debts made at different times stand charged up to now
C28_Witness ==
    /\ cutShort
    /\ tasks = EmptyBag
    /\ \E r, q \in debts :
          /\ r.created_at < q.created_at
          /\ r.last_interest_at > q.last_interest_at
          /\ q.last_interest_at > q.created_at
          /\ now - r.last_interest_at < DaysPerWeek * DayMs
          /\ now - q.last_interest_at < DaysPerWeek * DayMs

\* the last value of the clock
Horizon == StartMs + MaxTicks * StepMs

\* C29: with time going on and the cleanup timer firing, every pending
\* entry that is stored while the clock can still take it past RetentionMs
\* is eventually out of the pending tables, confirmed or not.
C29_EventuallyRemoved ==
    \A m \in 1..MaxMsgs :
        (\E e \in Entries : e.ref = m /\ e.timestamp + RetentionMs < Horizon)
            ~> ~Live(m)

\* C29, witness: in a build with two pending tables the entry of message 1
\* has left the table without having been applied, and the loan of message
\* 2, stored later, is still pending
C29_Witness ==
    /\ variant \in ChannelKeyed
    /\ nextMsgId = 3
    /\ tasks = EmptyBag
    /\ applied[1] = 0
    /\ ~Live(1)
    /\ now = Horizon
    /\ \E k \in DOMAIN pendingLoans :
          /\ pendingLoans[k].ref = 2
          /\ now - pendingLoans[k].timestamp <= RetentionMs

\* C30: the delete at the end of a confirmation handler removes the entry
\* the handler applied and no other: every entry of another trigger that is
\* pending when the handler ends is still pending afterwards.
C30_DeletesOwnEntryOnly ==
    [][tasks' # tasks =>
          \A t \in Confirming :
             (t.pc = "finish" /\ tasks' = Stop(t)) =>
                \A e \in Entries : e.ref # t.action.ref => e \in Entries']_vars

\* the fields of a debt row that an accrual pass or a repayment writes
Balance(r) == <<r.amount_remaining, r.last_interest_at, r.status>>

\* the row an accrual pass at time t leaves of row r: paid rows are not read
AccrualOf(r, t) == IF r.status = "open" THEN Accrued(r, t) ELSE r

\* C31: when a timer pass and a payDebt call have interleaved on one open
\* debt, the debt ends as one of the two serial orders leaves it.  Stated at
\* the step where the pass writes the debt after payDebt has returned (its
\* handler u is at its reply, and the debt was the only row it read): the
\* row written equals the accrual of the row payDebt left (repay, then
\* accrue) or the repayment of the accrual of the row payDebt read (accrue,
\* then repay).
C31_SerialOutcome ==
    [][debts' # debts =>
          \A t \in Passes : InterestUpdate(t) =>
             \A u \in Paying :
                (/\ u.pc = "finish"
                 /\ Len(u.read) = 1
                 /\ u.read[1].id = Head(t.rows).id)
                => LET left  == CHOOSE r \in debts : r.id = u.read[1].id
                       after == CHOOSE r \in debts' : r.id = u.read[1].id
                       first == AccrualOf(u.read[1], t.at)
                   IN  \/ Balance(after) = Balance(AccrualOf(left, t.at))
                       \/ Balance(after) =
                             Balance(Paid(first, first, u.action.amount))]_vars

\* C32: when the handlers of two pending REPAY entries of one borrower have
\* interleaved (payDebt has read the same open debts, of total T, in both,
\* and has returned in both), the borrower's debts sum to T less
\* min(p1 + p2, T), where p1 and p2 are the amounts of the two entries.
C32_BothPaymentsCount ==
    \A t, u \in Paying \cap Confirming :
        (/\ t.pc = "finish" /\ u.pc = "finish"
         /\ t.action.ref # u.action.ref
         /\ t.action.userId = u.action.userId
         /\ t.read = u.read)
        => LET T == SumRemaining(t.read)
           IN  SumRemaining(Current(t.read))
                  = T - Min(t.action.amount + u.action.amount, T)

\* C33: an accrual pass charges nothing for time that has not elapsed: when
\* the last_interest_at of the open debt it read is the time of the pass or
\* later, by any margin, its step leaves the row as it was.
C33_NoChargeAhead ==
    [][debts' # debts =>
          \A t \in Running :
             (InterestUpdate(t) /\ Head(t.rows).last_interest_at >= t.at)
             => \A r \in debts : r.id = Head(t.rows).id => r \in debts']_vars

\* C34: a pending entry older than the retention window is never applied:
\* when a confirmation handler inserts the debt or writes a repayment, its
\* entry was no older than RetentionMs when the confirmation arrived.
C34_ExpiredNeverApplied ==
    [][debts' # debts =>
          \A t \in Confirming :
             (LogDebt(t) \/ PayUpdate(t))
             => now - t.action.timestamp <= RetentionMs]_vars

\* C35: a confirmed action is applied to current balances only: when a
\* query of the accrual pass inside a confirmation handler fails, the
\* handler does not go on to logDebt or payDebt.  Stated for the passes with
\* interest to charge: an open debt is a whole week or more behind.
C35_StopsWhenAccrualFails ==
    [][tasks' # tasks =>
          \A t \in Confirming :
             (/\ InterestFails(t)
              /\ \E r \in debts : r.status = "open" /\ WeeksPassed(r, now) > 0) =>
                \A u \in BagToSet(tasks') :
                   u.action.ref = t.action.ref => u.pc \notin {"log", "pay_select"}]_vars

\* C36: the amounts subtracted from the borrower's debts on behalf of one
\* pending REPAY entry, summed over the handler runs for that entry, never
\* exceed the entry's amount.  Stated for two runs for one entry (a repeated
\* confirmation signal) in which payDebt has returned, with no other handler
\* under way: the debts that the earlier of the two calls read (the read
\* with the larger total) have lost no more than the entry's amount.
C36_NeverMoreThanAmount ==
    \A t, u \in Paying \cap Confirming :
        (/\ t.action.ref = u.action.ref
         /\ t # u \/ CopiesIn(t, tasks) > 1
         /\ t.pc = "finish" /\ u.pc = "finish"
         /\ \A w \in Running : w.action.ref = t.action.ref)
        => LET first == IF SumRemaining(t.read) >= SumRemaining(u.read)
                        THEN t.read ELSE u.read
           IN  SumRemaining(first) - SumRemaining(Current(first)) <= t.action.amount

=============================================================================
